---- MODULE Spec2Model ----
(***************************************************************************)
(* Sudoku-Solver-AR: the pure Sudoku solver (Solve.cpp), the Game board    *)
(* (Game.h / Game.cpp) and the CachedPuzzleSolver that runs the pure       *)
(* solver in a background task and caches its results                      *)
(* (CachedPuzzleSolver.h / CachedPuzzleSolver.cpp).                        *)
(***************************************************************************)
EXTENDS Integers, Sequences, FiniteSets, TLC

(***************************************************************************)
(* Game.h constants.                                                       *)
(***************************************************************************)
WIDTH == 9
HEIGHT == 9
BLOCK_WIDTH == WIDTH \div 3
BLOCK_HEIGHT == HEIGHT \div 3
MAX_VALUE == 9
EMPTY_VALUE == 0

\* CachedPuzzleSolver::UpdateRecentlyUsedSolutions::AddSolution
MAXIMUM_RECENTLY_USED_SOLUTIONS == 10
\* "differentDigitCount < 4" in CachedPuzzleSolver::Solve
NEAR_MATCH_LIMIT == 4
\* "nonZeroDigits < 21" in CachedPuzzleSolver::Solve
MINIMUM_NON_ZERO_DIGITS == 21
\* unsigned int recentlyUsedCount is kept as its 32-bit pattern read as a
\* two's-complement integer: 0 .. INT_MAX stand for themselves and a negative
\* n stands for the unsigned value n + 2^32 (so 0 - 1 wraps to the pattern -1).
INT_MAX == 2147483647
\* width of the unsigned char accumulator parameter of the clue count
UCHAR_MODULUS == 256

(***************************************************************************)
(* Game: the board is the vector `state` of WIDTH * HEIGHT cells, kept     *)
(* here as a sequence indexed from 1 (cell (x,y) is element y*WIDTH+x+1).  *)
(***************************************************************************)
Index(x, y) == y * WIDTH + x

EmptyGame == [i \in 1..(WIDTH * HEIGHT) |-> EMPTY_VALUE]

\* Game::Set with value - 1 computed in unsigned char, so that value 0 is
\* rejected
GameSetRejectsEmpty(game, x, y, value) ==
  IF x >= WIDTH \/ y >= HEIGHT \/ ((value - 1) % UCHAR_MODULUS) >= MAX_VALUE
    THEN game
    ELSE [game EXCEPT ![Index(x, y) + 1] = value]

\* Game::Set: the board after the call (the bool result is ignored by every
\* caller modelled here).  value - 1 is computed in int, so value 0 passes.
GameSet(game, x, y, value) ==
  IF x >= WIDTH \/ y >= HEIGHT \/ (value - 1) >= MAX_VALUE
    THEN game
    ELSE [game EXCEPT ![Index(x, y) + 1] = value]

GameGet(game, x, y) ==
  IF x >= WIDTH \/ y >= HEIGHT THEN EMPTY_VALUE ELSE game[Index(x, y) + 1]

(***************************************************************************)
(* DigitSet of Solve.cpp: choices[0..9] of 0/1, kept as the set of indices *)
(* whose entry is 1.                                                       *)
(***************************************************************************)
DigitSetComplemented(choices) == {x \in 1..9 : x \notin choices}

UnavailableHorizontalChoices(game, y) ==
  {GameGet(game, x, y) : x \in 0..(WIDTH - 1)}

UnavailableVerticalChoices(game, x) ==
  {GameGet(game, x, y) : y \in 0..(HEIGHT - 1)}

UnavailableBlockChoices(game, x, y) ==
  LET squareStartX == (x \div BLOCK_WIDTH) * BLOCK_WIDTH
      squareStartY == (y \div BLOCK_HEIGHT) * BLOCK_HEIGHT
  IN {GameGet(game, squareStartX + bx, squareStartY + by) :
        bx \in 0..(BLOCK_WIDTH - 1), by \in 0..(BLOCK_HEIGHT - 1)}

AvailableChoices(game, x, y) ==
  DigitSetComplemented(UnavailableHorizontalChoices(game, y)
                       \cup UnavailableVerticalChoices(game, x)
                       \cup UnavailableBlockChoices(game, x, y))

\* NextOpenPosition with the loop bound WIDTH in place of WIDTH * HEIGHT
NextOpenPositionFirstRow(game, x, y) ==
  LET open == {index \in (y * WIDTH + x + 1)..(WIDTH - 1) :
                 GameGet(game, index % WIDTH, index \div HEIGHT) = EMPTY_VALUE}
  IN IF open = {} THEN 0
     ELSE 1 + (CHOOSE index \in open : \A other \in open : index <= other)

\* NextOpenPosition: 0 when there is no open position after (x,y), otherwise
\* 1 + the index of the first one.
NextOpenPosition(game, x, y) ==
  LET open == {index \in (y * WIDTH + x + 1)..(WIDTH * HEIGHT - 1) :
                 GameGet(game, index % WIDTH, index \div HEIGHT) = EMPTY_VALUE}
  IN IF open = {} THEN 0
     ELSE 1 + (CHOOSE index \in open : \A other \in open : index <= other)

\* Solvable looking at rows and columns only
SolvableRowsAndColumns(game) ==
  \A y \in 0..(HEIGHT - 1), x \in 0..(WIDTH - 1) :
    LET digit == GameGet(game, x, y)
        cleared == GameSet(game, x, y, 0)
    IN digit = 0 \/ digit \notin (UnavailableHorizontalChoices(cleared, y)
                                     \cup UnavailableVerticalChoices(cleared, x))

Solvable(game) ==
  \A y \in 0..(HEIGHT - 1), x \in 0..(WIDTH - 1) :
    LET digit == GameGet(game, x, y)
    IN digit = 0 \/ digit \in AvailableChoices(GameSet(game, x, y, 0), x, y)

(***************************************************************************)
(* Solve(Game&): depth-first search driven by an explicit stack of         *)
(* guesses.  The stack is a sequence whose last element is the top.        *)
(***************************************************************************)
\* iteration of a DigitSet: its members in ascending order
DigitSetIterate(choices) ==
  [i \in 1..Cardinality(choices) |->
     CHOOSE v \in choices : Cardinality({w \in choices : w < v}) = i - 1]

\* PushAvailableGuesses pushing the first available choice only
PushAvailableGuessesFirstOnly(game, availableGuesses, x, y) ==
  LET order == DigitSetIterate(AvailableChoices(game, x, y))
  IN availableGuesses \o
       [i \in 1..(IF Len(order) = 0 THEN 0 ELSE 1) |->
          [type |-> "Set", x |-> x, y |-> y, value |-> order[i]]]

\* PushAvailableGuesses pushing the available choices largest first
PushAvailableGuessesDescending(game, availableGuesses, x, y) ==
  LET order == DigitSetIterate(AvailableChoices(game, x, y))
  IN availableGuesses \o
       [i \in 1..Len(order) |->
          [type |-> "Set", x |-> x, y |-> y, value |-> order[Len(order) + 1 - i]]]

\* the lambda PushAvailableGuesses of Solve
PushAvailableGuesses(game, availableGuesses, x, y) ==
  LET order == DigitSetIterate(AvailableChoices(game, x, y))
  IN availableGuesses \o
       [i \in 1..Len(order) |-> [type |-> "Set", x |-> x, y |-> y, value |-> order[i]]]

\* the state of a run of Solve: the board, the guess stack, and whether and
\* with which result the function has returned
SolveStart(game) ==
  IF GameGet(game, 0, 0) # EMPTY_VALUE /\ NextOpenPosition(game, 0, 0) = 0
    THEN [game |-> game, availableGuesses |-> << >>, returned |-> TRUE, result |-> TRUE]
    ELSE LET next == IF GameGet(game, 0, 0) # EMPTY_VALUE
                       THEN NextOpenPosition(game, 0, 0) - 1 ELSE 0
         IN CHOOSE start \in
              {[game |-> game,
                availableGuesses |->
                  PushAvailableGuesses(game, << >>, n % WIDTH, n \div HEIGHT),
                returned |-> FALSE, result |-> FALSE] : n \in {next}} : TRUE

\* one evaluation of the while condition and, if it holds, of the loop body
SolveIteration(run) ==
  IF run.availableGuesses = << >>
    THEN [run EXCEPT !.returned = TRUE, !.result = FALSE]
    ELSE
      LET guess == run.availableGuesses[Len(run.availableGuesses)]
          popped == SubSeq(run.availableGuesses, 1, Len(run.availableGuesses) - 1)
      IN IF guess.type = "Set"
           THEN LET set == GameSet(run.game, guess.x, guess.y, guess.value)
                    pushed == Append(popped, [guess EXCEPT !.type = "Clear"])
                    next == NextOpenPosition(set, guess.x, guess.y)
                IN IF next = 0
                     THEN [game |-> set, availableGuesses |-> pushed,
                           returned |-> TRUE, result |-> TRUE]
                     ELSE CHOOSE after \in
                            {[game |-> g,
                              availableGuesses |->
                                PushAvailableGuesses(g, pushed, (n - 1) % WIDTH,
                                                     (n - 1) \div HEIGHT),
                              returned |-> FALSE, result |-> FALSE] :
                               g \in {set}, n \in {next}} : TRUE
           ELSE [game |-> GameSet(run.game, guess.x, guess.y, EMPTY_VALUE),
                 availableGuesses |-> popped,
                 returned |-> FALSE, result |-> FALSE]

RECURSIVE SolveLoop(_)
SolveLoop(run) ==
  IF run.returned THEN run
  ELSE CHOOSE end \in {SolveLoop(next) : next \in {SolveIteration(run)}} : TRUE

\* bool Solve(Game& game): the result and the board it leaves
PureSolve(game) ==
  CHOOSE return \in
    {[result |-> run.result, game |-> run.game] :
       run \in {SolveLoop(start) : start \in {SolveStart(g) : g \in {game}}}} : TRUE

(***************************************************************************)
(* CachedPuzzleSolver.cpp helpers.                                         *)
(***************************************************************************)
\* called only after the size and digit checks of Solve
DigitsToGame(digits) ==
  [i \in 1..(WIDTH * HEIGHT) |->
     LET x == (i - 1) % WIDTH
         y == (i - 1) \div WIDTH
     IN GameGet(GameSet(EmptyGame, x, y, digits[y * 9 + x + 1]), x, y)]

GameToDigits(game) ==
  [i \in 1..(WIDTH * HEIGHT) |-> GameGet(game, (i - 1) % WIDTH, (i - 1) \div WIDTH)]

(***************************************************************************)
(* The digit vectors the frame loop presents to CachedPuzzleSolver::Solve. *)
(* Cell (x,y) is element y*9+x+1.                                          *)
(***************************************************************************)
\* a completed valid board
SolvedBoard ==
  << 5, 3, 4, 6, 7, 8, 9, 1, 2,
     6, 7, 2, 1, 9, 5, 3, 4, 8,
     1, 9, 8, 3, 4, 2, 5, 6, 7,
     8, 5, 9, 7, 6, 1, 4, 2, 3,
     4, 2, 6, 8, 5, 3, 7, 9, 1,
     7, 1, 3, 9, 2, 4, 8, 5, 6,
     9, 6, 1, 5, 3, 7, 2, 8, 4,
     2, 8, 7, 4, 1, 9, 6, 3, 5,
     3, 4, 5, 2, 8, 6, 1, 7, 9 >>

\* SolvedBoard with the digits 1 and 3 exchanged in rows 3,4 / columns 5,8:
\* a second completed valid board
SwappedBoard == [SolvedBoard EXCEPT ![33] = 3, ![36] = 1, ![42] = 1, ![45] = 3]

\* 78 clues, only completion SolvedBoard
PuzzleA == [SolvedBoard EXCEPT ![36] = 0, ![42] = 0, ![45] = 0]
\* PuzzleA with one clue changed; only completion SwappedBoard
PuzzleB == [PuzzleA EXCEPT ![33] = 3]
\* PuzzleA with two more blanks and one blank filled so that no digit repeats
\* but cell (8,3) has no permissible digit: passes Solvable, has no completion;
\* differs from PuzzleA in 3 cells and from PuzzleB in 4
PuzzleNearA == [PuzzleA EXCEPT ![1] = 0, ![2] = 0, ![45] = 3]
\* the same construction on PuzzleB: passes Solvable, has no completion;
\* differs from PuzzleB in 3 cells and from PuzzleA in 4
PuzzleNearB == [PuzzleB EXCEPT ![1] = 0, ![2] = 0, ![45] = 1]
\* PuzzleA with a 1 written twice into row 3
DigitsConflict == [PuzzleA EXCEPT ![36] = 1]
\* PuzzleA with a value that is no digit
DigitsTooLarge == [PuzzleA EXCEPT ![1] = 10]
\* PuzzleA without its last element
DigitsShort == SubSeq(PuzzleA, 1, 80)
\* the first 20 cells of SolvedBoard, all others blank
DigitsFewClues == [i \in 1..81 |-> IF i <= 20 THEN SolvedBoard[i] ELSE 0]

InputDigits ==
  {PuzzleA, PuzzleB, PuzzleNearA, PuzzleNearB,
   DigitsConflict, DigitsTooLarge, DigitsShort, DigitsFewClues}

(***************************************************************************)
(* CachedPuzzleSolver::Solve, the validation of lines 331-348.             *)
(***************************************************************************)
SizeAndDigitsValid(digits) ==
  /\ Len(digits) = 81
  /\ ~ \E i \in 1..Len(digits) : digits[i] > 9

\* std::accumulate with a lambda whose accumulator parameter is unsigned char:
\* the running count is truncated to 8 bits before each addition, which never
\* changes it for the at most 81 elements that reach this line
NonZeroDigits(digits) ==
  LET counted == Cardinality({i \in 1..Len(digits) : digits[i] > 0})
  IN IF counted = 0 THEN 0 ELSE ((counted - 1) % UCHAR_MODULUS) + 1

\* EnoughDigits with the limit one too low
EnoughDigitsOffByOne(nonZeroDigits) == ~ (nonZeroDigits < MINIMUM_NON_ZERO_DIGITS - 1)

EnoughDigits(nonZeroDigits) == ~ (nonZeroDigits < MINIMUM_NON_ZERO_DIGITS)

ValidPuzzle(digits) ==
  /\ SizeAndDigitsValid(digits)
  /\ Solvable(DigitsToGame(digits))
  /\ EnoughDigits(NonZeroDigits(digits))

\* ValidPuzzle, DigitsToGame and PureSolve tabulated over the inputs, so that
\* each is evaluated once per input.
ValidityTable == {<< digits, ValidPuzzle(digits) >> : digits \in InputDigits}

ValidInputs == {entry[1] : entry \in {e \in ValidityTable : e[2]}}

GameTable == {<< digits, DigitsToGame(digits) >> : digits \in ValidInputs}

GameOf(digits) == (CHOOSE entry \in GameTable : entry[1] = digits)[2]

PureSolveTable == {<< entry[2], PureSolve(entry[2]) >> : entry \in GameTable}

PureSolveOf(game) == (CHOOSE entry \in PureSolveTable : entry[1] = game)[2]

(***************************************************************************)
(* CachedPuzzleSolver: state.                                              *)
(***************************************************************************)
VARIABLES
  solvedPuzzles,          \* SolutionMap, kept as the sequence of its nodes in
                          \* the order they were inserted; a node is
                          \* [first |-> key digits,
                          \*  second |-> [digits, recentlyUsedCount]]
  recentlyUsedSolutions,  \* deque of SolutionMap iterators; an iterator is the
                          \* position of its node in solvedPuzzles (no node is
                          \* ever erased, so iterators stay valid)
  solvingDigits,          \* digits of the task launched last
  solvingGame,            \* the Game the task launched last works on
  solvingFuture,          \* [valid, ready, value] of std::future<bool>
  tasks,                  \* number of background tasks launched and not yet
                          \* collected by solvingFuture.get()
  lastCall,               \* the member function the frame thread called last
  digitsArg,              \* the digits argument of the last call (empty if none)
  ret,                    \* what the last call returned
  launched,               \* whether the last Solve call reached std::async
  collected,              \* what the last call took from solvingFuture.get():
                          \* "nothing", "success" or "failure"
  popped,                 \* whether the last Solve call removed the oldest
                          \* element of the deque
  again,                  \* whether the last call was a Solve whose digits are
                          \* those of the call right before it, a Solve that
                          \* returned a solution
  solution,               \* the solution vector of the last call: the frame loop
                          \* passes a fresh empty vector to every call
  calls,                  \* number of calls the frame loop has made
  solveInput,             \* the board a direct caller passes to the pure solver
  solveRun,               \* the run of bool Solve(Game&) on that board
  solvable,               \* what Solvable returned to that caller ("unknown"
                          \* before the call)
  solvePc,                \* where that caller is: "idle", "check", "entry",
                          \* "loop", "done"
  roundedGradient,        \* NonMaximumSuppression: per pixel [magnitude, direction]
  highThreshold,          \* its argument highThreshold
  nonMaximumSuppression,  \* its output buffer: per pixel the channels
                          \* [strong, weak, visited]
  found,                  \* the local variable found of the hysteresis loop
  scanIndex,              \* how many interior pixels the running pass has
                          \* gone through, in raster order
  cannyPc,                \* where NonMaximumSuppression is: "idle", "entry",
                          \* "while", "pass", "done"
  houghTransformFrame,    \* FindLines: the accumulator, per cell the unsigned
                          \* short ExtractValue reads
  lines,                  \* its output, in the order of the push_back calls
  peaks,                  \* the cells the lines were pushed for, in that order
  houghPc,                \* "idle", "entry", "done"
  inputSize,              \* NeuralNetworkData::inputSize
  outputChoices,          \* NeuralNetworkData::outputChoices
  trainingData,           \* NeuralNetworkData::trainingData, pairs [first, second]
  layers,                 \* NeuralNetworkData::layers, floats as their four bytes
  binaryFile,             \* the bytes of BINARY_FILE_PATH, NoFile when absent
  saved,                  \* the network SaveAsBinary last wrote, as it was then
  networkPc,              \* "idle", "empty", "training", "trained", "loaded",
                          \* "failed", "crashed"
  training                \* NeuralNetwork::Train with the text file of Save and
                          \* Load: where the call is, its loop index x, the
                          \* training data in memory and in the file

vars ==
  << solvedPuzzles, recentlyUsedSolutions, solvingDigits, solvingGame,
     solvingFuture, tasks, lastCall, digitsArg, ret, launched, collected, popped,
     again, solution, calls, solveInput, solveRun, solvable, solvePc,
     roundedGradient, highThreshold, nonMaximumSuppression, found, scanIndex,
     cannyPc, houghTransformFrame, lines, peaks, houghPc, inputSize,
     outputChoices, trainingData, layers, binaryFile, saved, networkPc,
     training >>

cacheVars ==
  << solvedPuzzles, recentlyUsedSolutions, solvingDigits, solvingGame,
     solvingFuture, tasks, lastCall, digitsArg, ret, launched, collected, popped,
     again, solution, calls >>

\* what the calls of CachedPuzzleSolver leave alone
solveVars == << solveInput, solveRun, solvable, solvePc >>
cannyVars ==
  << roundedGradient, highThreshold, nonMaximumSuppression, found, scanIndex,
     cannyPc >>
houghVars == << houghTransformFrame, lines, peaks, houghPc >>
networkVars ==
  << inputSize, outputChoices, trainingData, layers, binaryFile, saved, networkPc >>
trainVars == << training >>
otherVars == << solveVars, cannyVars, houghVars, networkVars, trainVars >>

solverVars ==
  << solvedPuzzles, recentlyUsedSolutions, solvingDigits, solvingGame,
     solvingFuture, tasks >>

InvalidFuture == [valid |-> FALSE, ready |-> FALSE, value |-> FALSE]
RunningFuture == [valid |-> TRUE, ready |-> FALSE, value |-> FALSE]

\* a CachedPuzzleSolver right after construction
InitCache ==
  /\ solvedPuzzles = << >>
  /\ recentlyUsedSolutions = << >>
  /\ solvingDigits = << >>
  /\ solvingGame = EmptyGame
  /\ solvingFuture = InvalidFuture
  /\ tasks = 0
  /\ lastCall = "none"
  /\ digitsArg = << >>
  /\ ret = FALSE
  /\ launched = FALSE
  /\ collected = "nothing"
  /\ popped = FALSE
  /\ again = FALSE
  /\ solution = << >>
  /\ calls = 0

\* the run record before Solve is entered
NoRun == [game |-> << >>, availableGuesses |-> << >>, returned |-> FALSE, result |-> FALSE]

\* no direct caller of the pure solver
InitSolveIdle ==
  /\ solveInput = << >>
  /\ solveRun = NoRun
  /\ solvable = "unknown"
  /\ solvePc = "idle"

\* no image in the Canny stage
InitCannyIdle ==
  /\ roundedGradient = << >>
  /\ highThreshold = 0
  /\ nonMaximumSuppression = << >>
  /\ found = FALSE
  /\ scanIndex = 0
  /\ cannyPc = "idle"

\* no accumulator in the peak finder
InitHoughIdle ==
  /\ houghTransformFrame = << >>
  /\ lines = << >>
  /\ peaks = << >>
  /\ houghPc = "idle"

\* the binary file when it does not exist
NoFile == << 0 - 1 >>

\* no NeuralNetworkData object
InitNetworkIdle ==
  /\ inputSize = 0
  /\ outputChoices = << >>
  /\ trainingData = << >>
  /\ layers = << >>
  /\ binaryFile = NoFile
  /\ saved = << >>
  /\ networkPc = "idle"

\* no call of NeuralNetwork::Train
NoTraining ==
  [pc |-> "idle", x |-> 0, totalErrorLow |-> FALSE, saved |-> FALSE,
   samples |-> 0, file |-> 0, run |-> 0, epochs |-> 0, completed |-> FALSE]

InitTrainingIdle == training = NoTraining

Init ==
  /\ InitCache
  /\ InitSolveIdle
  /\ InitCannyIdle
  /\ InitHoughIdle
  /\ InitNetworkIdle
  /\ InitTrainingIdle

(***************************************************************************)
(* unsigned int arithmetic on recentlyUsedCount (see INT_MAX).             *)
(***************************************************************************)
UIntInc(n) == IF n = INT_MAX THEN (0 - INT_MAX) - 1 ELSE n + 1
UIntDec(n) == IF n = (0 - INT_MAX) - 1 THEN INT_MAX ELSE n - 1
UIntLess(a, b) == IF (a < 0) = (b < 0) THEN a < b ELSE a >= 0

(***************************************************************************)
(* SolutionMap.                                                            *)
(***************************************************************************)
\* solvedPuzzles.find(digits): the iterator, 0 for end()
Find(puzzles, digits) ==
  IF \E i \in 1..Len(puzzles) : puzzles[i].first = digits
    THEN CHOOSE i \in 1..Len(puzzles) : puzzles[i].first = digits
    ELSE 0

Count(puzzles, iter) == puzzles[iter].second.recentlyUsedCount

(***************************************************************************)
(* UpdateRecentlyUsedSolutions.  Each operator returns the map and the     *)
(* deque it leaves.                                                        *)
(***************************************************************************)
PopSolution(puzzles, recentlyUsed) ==
  IF recentlyUsed = << >>
    THEN [puzzles |-> puzzles, recentlyUsed |-> recentlyUsed]
    ELSE [puzzles |->
            [puzzles EXCEPT ![Head(recentlyUsed)].second.recentlyUsedCount = UIntDec(@)],
          recentlyUsed |-> Tail(recentlyUsed)]

\* AddSolution without the bound on the deque
AddSolutionNoPop(puzzles, recentlyUsed, iter) ==
  [puzzles |-> [puzzles EXCEPT ![iter].second.recentlyUsedCount = UIntInc(@)],
   recentlyUsed |-> Append(recentlyUsed, iter)]

AddSolution(puzzles, recentlyUsed, iter) ==
  LET counted == [puzzles EXCEPT ![iter].second.recentlyUsedCount = UIntInc(@)]
      pushed == Append(recentlyUsed, iter)
  IN IF Len(pushed) > MAXIMUM_RECENTLY_USED_SOLUTIONS
       THEN PopSolution(counted, pushed)
       ELSE [puzzles |-> counted, recentlyUsed |-> pushed]

(***************************************************************************)
(* GetMostLikelySolution(SolutionMap::const_iterator&): std::max_element   *)
(* returns the first element no other element is greater than; 0 stands    *)
(* for "returned false", otherwise the position in the deque.              *)
(***************************************************************************)
\* MostLikelyPosition taking the oldest element of the deque
MostLikelyPositionFront(puzzles, recentlyUsed) ==
  IF recentlyUsed = << >> THEN 0 ELSE 1

MostLikelyPosition(puzzles, recentlyUsed) ==
  IF recentlyUsed = << >> THEN 0
  ELSE CHOOSE i \in 1..Len(recentlyUsed) :
         /\ \A j \in 1..Len(recentlyUsed) :
              ~ UIntLess(Count(puzzles, recentlyUsed[i]), Count(puzzles, recentlyUsed[j]))
         /\ \A j \in 1..(i - 1) :
              UIntLess(Count(puzzles, recentlyUsed[j]), Count(puzzles, recentlyUsed[i]))

\* bool GetMostLikelySolution(std::vector<unsigned char>& solution) const
MostLikelySolution(puzzles, recentlyUsed) ==
  LET position == MostLikelyPosition(puzzles, recentlyUsed)
  IN IF position = 0
       THEN [ret |-> FALSE, digits |-> << >>]
       ELSE [ret |-> TRUE, digits |-> puzzles[recentlyUsed[position]].second.digits]

\* the loop of lines 365-370
DifferentDigitCount(digits, key) ==
  Cardinality({x \in 1..Len(digits) : digits[x] # key[x]})

\* NearMatch with the limit one too low
NearMatchTooStrict(differentDigitCount) == differentDigitCount < NEAR_MATCH_LIMIT - 1

NearMatch(differentDigitCount) == differentDigitCount < NEAR_MATCH_LIMIT

(***************************************************************************)
(* CachedPuzzleSolver::Solve.                                              *)
(***************************************************************************)
\* line 322: solvingFuture.valid() && wait_for(0) == ready
ResultReady(future) == future.valid /\ future.ready

\* TaskPending that never sees the task in flight
TaskPendingNever(future) == FALSE

\* line 382: solvingFuture.valid()
TaskPending(future) == future.valid

\* StoreSolution writing through begin() once the map has a node
StoreSolutionAtBegin(puzzles, key, game) ==
  LET node == [first |-> key,
               second |-> [digits |-> GameToDigits(game), recentlyUsedCount |-> 0]]
  IN IF puzzles = << >> THEN << node >> ELSE [puzzles EXCEPT ![1] = node]

\* line 327: solvedPuzzles[solvingDigits] = {GameToDigits(solvingGame),0}
StoreSolution(puzzles, key, game) ==
  LET node == [first |-> key,
               second |-> [digits |-> GameToDigits(game), recentlyUsedCount |-> 0]]
  IN IF Find(puzzles, key) = 0
       THEN Append(puzzles, node)
       ELSE [puzzles EXCEPT ![Find(puzzles, key)] = node]

\* CollectResult that forgets the result of the task
CollectResultDropped(puzzles, future, digits, game) == puzzles

\* CollectResult that ignores what solvingFuture.get() returns
CollectResultAlways(puzzles, future, digits, game) ==
  IF future.valid /\ future.ready
    THEN StoreSolution(puzzles, digits, game)
    ELSE puzzles

\* lines 321-329: the map after the poll of the future
CollectResult(puzzles, future, digits, game) ==
  IF ResultReady(future) /\ future.value
    THEN StoreSolution(puzzles, digits, game)
    ELSE puzzles

\* lines 331-393 together with the destructor of updateRecentlyUsedSolutions,
\* from the map and the future left by lines 321-329: what the call returns,
\* writes to `solution`, and leaves in the members
SolveBody(digits, puzzles, future) ==
  LET destroyed == PopSolution(puzzles, recentlyUsedSolutions)
      rejected == [ret |-> FALSE, solution |-> << >>,
                   puzzles |-> destroyed.puzzles,
                   recentlyUsed |-> destroyed.recentlyUsed,
                   popped |-> recentlyUsedSolutions # << >>,
                   launched |-> FALSE]
      iter == Find(puzzles, digits)
      mostLikely == MostLikelyPosition(puzzles, recentlyUsedSolutions)
      mostRecentlyUsedSolution == recentlyUsedSolutions[mostLikely]
  IN IF digits \notin ValidInputs
       THEN rejected
     ELSE IF iter # 0
       THEN LET added == AddSolution(puzzles, recentlyUsedSolutions, iter)
            IN [ret |-> TRUE, solution |-> puzzles[iter].second.digits,
                puzzles |-> added.puzzles, recentlyUsed |-> added.recentlyUsed,
                popped |-> Len(added.recentlyUsed) = Len(recentlyUsedSolutions),
                launched |-> FALSE]
     ELSE IF /\ mostLikely # 0
             /\ NearMatch(DifferentDigitCount(digits,
                                              puzzles[mostRecentlyUsedSolution].first))
       THEN [rejected EXCEPT
               !.ret = TRUE,
               !.solution = puzzles[mostRecentlyUsedSolution].second.digits]
     ELSE IF TaskPending(future)
       THEN rejected
     ELSE [rejected EXCEPT !.launched = TRUE]

Solve(digits) ==
  \E polled \in {ResultReady(solvingFuture)},
     puzzles \in {CollectResult(solvedPuzzles, solvingFuture, solvingDigits, solvingGame)} :
  \E future \in {IF polled THEN InvalidFuture ELSE solvingFuture} :
  \E body \in {SolveBody(digits, puzzles, future)} :
     /\ solvedPuzzles' = body.puzzles
     /\ recentlyUsedSolutions' = body.recentlyUsed
     /\ solvingDigits' = IF body.launched THEN digits ELSE solvingDigits
     /\ solvingGame' = IF body.launched THEN GameOf(digits) ELSE solvingGame
     /\ solvingFuture' = IF body.launched THEN RunningFuture ELSE future
     /\ tasks' = (IF polled THEN tasks - 1 ELSE tasks)
                   + (IF body.launched THEN 1 ELSE 0)
     /\ lastCall' = "Solve"
     /\ digitsArg' = digits
     /\ ret' = body.ret
     /\ launched' = body.launched
     /\ collected' = IF ~ polled THEN "nothing"
                      ELSE IF solvingFuture.value THEN "success" ELSE "failure"
     /\ popped' = body.popped
     /\ again' = (lastCall = "Solve" /\ ret /\ digitsArg = digits)
     /\ solution' = body.solution
     /\ UNCHANGED otherVars

\* the frame thread calls GetMostLikelySolution(solution)
GetMostLikelySolution ==
  LET mostLikely == MostLikelySolution(solvedPuzzles, recentlyUsedSolutions)
  IN /\ lastCall' = "GetMostLikelySolution"
     /\ ret' = mostLikely.ret
     /\ solution' = mostLikely.digits
     /\ launched' = FALSE
     /\ collected' = "nothing"
     /\ popped' = FALSE
     /\ again' = FALSE
     /\ digitsArg' = << >>
     /\ UNCHANGED solverVars
     /\ UNCHANGED otherVars

\* the background task  [this]() { return ::Solve(solvingGame); }  runs to
\* its end and makes the future ready
TaskFinish ==
  /\ solvingFuture.valid
  /\ ~ solvingFuture.ready
  /\ \E run \in {PureSolve(game) : game \in {solvingGame}} :
        /\ solvingGame' = run.game
        /\ solvingFuture' = [valid |-> TRUE, ready |-> TRUE, value |-> run.result]
  /\ UNCHANGED << solvedPuzzles, recentlyUsedSolutions, solvingDigits, tasks,
                  lastCall, digitsArg, ret, launched, collected, popped, again,
                  solution, calls >>
  /\ UNCHANGED otherVars

(***************************************************************************)
(* Spec: the frame loop makes at most MaxCalls calls, each with any of the *)
(* inputs; the background task finishes at any moment.                     *)
(***************************************************************************)
MaxCalls == 8

FrameSolve(digits) ==
  /\ calls < MaxCalls
  /\ calls' = calls + 1
  /\ Solve(digits)

FrameGetMostLikelySolution ==
  /\ calls < MaxCalls
  /\ calls' = calls + 1
  /\ GetMostLikelySolution

Next ==
  \/ \E digits \in InputDigits : FrameSolve(digits)
  \/ FrameGetMostLikelySolution
  \/ TaskFinish

Spec == Init /\ [][Next]_vars

(***************************************************************************)
(* SpecRepeat: the frame loop keeps presenting the two solvable puzzles,   *)
(* any number of times, so that the recently-used deque fills up.          *)
(***************************************************************************)
RepeatDigits == {PuzzleA, PuzzleB}

RepeatSolve(digits) ==
  /\ Solve(digits)
  /\ UNCHANGED calls

RepeatGetMostLikelySolution ==
  /\ GetMostLikelySolution
  /\ UNCHANGED calls

NextRepeat ==
  \/ \E digits \in RepeatDigits : RepeatSolve(digits)
  \/ RepeatGetMostLikelySolution
  \/ TaskFinish

SpecRepeat == Init /\ [][NextRepeat]_vars

(***************************************************************************)
(* SpecFrame: the frame loop decodes the same puzzle from every frame      *)
(* after at most MaxEarlierCalls calls with other inputs, and every task   *)
(* launched with std::async runs to its end.                               *)
(***************************************************************************)
MaxEarlierCalls == 3

\* the puzzle the camera keeps showing
ShownPuzzle == PuzzleA

EarlierSolve(digits) ==
  /\ calls < MaxEarlierCalls
  /\ calls' = calls + 1
  /\ Solve(digits)

ShownSolve ==
  /\ Solve(ShownPuzzle)
  /\ UNCHANGED calls

\* what the frames before showed: a solvable puzzle close to the shown one,
\* two puzzles without solution, one close and one not, and a misread board
EarlierDigits == {PuzzleB, PuzzleNearA, PuzzleNearB, DigitsConflict}

NextFrame ==
  \/ \E digits \in EarlierDigits : EarlierSolve(digits)
  \/ ShownSolve
  \/ TaskFinish

SpecFrame ==
  /\ Init
  /\ [][NextFrame]_vars
  /\ WF_vars(ShownSolve)
  /\ WF_vars(TaskFinish)

(***************************************************************************)
(* SpecSolve: a caller passes a board to Solvable and then to the pure     *)
(* solver, which runs one loop iteration per step.                         *)
(***************************************************************************)
StandardPuzzle ==
  << 5,3,0,0,7,0,0,0,0,
     6,0,0,1,9,5,0,0,0,
     0,9,8,0,0,0,0,6,0,
     8,0,0,0,6,0,0,0,3,
     4,0,0,8,0,3,0,0,1,
     7,0,0,0,2,0,0,0,6,
     0,6,0,0,0,0,2,8,0,
     0,0,0,4,1,9,0,0,5,
     0,0,0,0,8,0,0,7,9 >>

\* the standard puzzle with one more clue, which its solution does not have
StandardWrongClue == [StandardPuzzle EXCEPT ![8] = 2]
\* completed boards with one cell blank: the first, the last
FirstCellBlank == [SolvedBoard EXCEPT ![1] = 0]
LastCellBlank == [SwappedBoard EXCEPT ![81] = 0]
\* a full board with the digit 3 twice in row 0, column 0 and block 0
FullConflictBoard == [SolvedBoard EXCEPT ![1] = 3]
\* the same conflict with the last cell left open
ConflictLastBlank == [FullConflictBoard EXCEPT ![81] = 0]
\* the digit 6 twice in row 0 and in no column or block
RowConflictBoard == [SolvedBoard EXCEPT ![1] = 6, ![10] = 0]
\* the digit 8 twice in column 0 and in no row or block
ColumnConflictBoard == [SolvedBoard EXCEPT ![1] = 8, ![6] = 0, ![21] = 0]
\* the digit 7 twice in block 0 and in no row or column
BlockConflictBoard == [SolvedBoard EXCEPT ![1] = 7, ![5] = 0, ![46] = 0]

\* PuzzleA with the fourth cell of the exchange blank too: it has the two
\* completions SolvedBoard and SwappedBoard
TwoCompletionsBoard == [PuzzleA EXCEPT ![33] = 0]

SolveBoards ==
  {StandardPuzzle, StandardWrongClue, SolvedBoard, SwappedBoard, PuzzleA, PuzzleB,
   PuzzleNearA, PuzzleNearB, FirstCellBlank, LastCellBlank, DigitsConflict,
   FullConflictBoard, ConflictLastBlank, RowConflictBoard, ColumnConflictBoard,
   BlockConflictBoard, TwoCompletionsBoard}

InitSolve ==
  /\ InitCache
  /\ InitTrainingIdle
  /\ InitCannyIdle
  /\ InitHoughIdle
  /\ InitNetworkIdle
  /\ solveInput \in SolveBoards
  /\ solveRun = [NoRun EXCEPT !.game = solveInput]
  /\ solvable = "unknown"
  /\ solvePc = "check"

\* the caller evaluates Solvable(game), which works on a copy
SolvableCall ==
  /\ solvePc = "check"
  /\ solvable' = IF Solvable(solveInput) THEN "true" ELSE "false"
  /\ solvePc' = "entry"
  /\ UNCHANGED << cacheVars, trainVars, cannyVars, houghVars, networkVars, solveInput, solveRun >>

\* Solve(game) up to the while loop
SolveEntry ==
  /\ solvePc = "entry"
  /\ solveRun' = SolveStart(solveInput)
  /\ solvePc' = IF solveRun'.returned THEN "done" ELSE "loop"
  /\ UNCHANGED << cacheVars, trainVars, cannyVars, houghVars, networkVars, solveInput, solvable >>

\* one evaluation of the while condition and of the loop body
SolveLoopIteration ==
  /\ solvePc = "loop"
  /\ solveRun' = SolveIteration(solveRun)
  /\ solvePc' = IF solveRun'.returned THEN "done" ELSE "loop"
  /\ UNCHANGED << cacheVars, trainVars, cannyVars, houghVars, networkVars, solveInput, solvable >>

NextSolve ==
  \/ SolvableCall
  \/ SolveEntry
  \/ SolveLoopIteration

SpecSolve == InitSolve /\ [][NextSolve]_vars

\* the caller's thread is scheduled until Solve returns
SpecSolveLive == SpecSolve /\ WF_vars(NextSolve)

(***************************************************************************)
(* SpecCanny: NonMaximumSuppression of ImageProcessing.cpp on an image of  *)
(* ImageWidth x ImageHeight pixels, as Canny::Process calls it.  The       *)
(* buffers are functions on the pixel positions y * width + x.             *)
(***************************************************************************)
ImageWidth == 5
ImageHeight == 4
Magnitudes == {0, 1, 2}
HighThresholds == {2}

Pixels == 0..(ImageWidth * ImageHeight - 1)
PixelIndex(x, y) == y * ImageWidth + x
InteriorPixels ==
  {PixelIndex(x, y) : x \in 1..(ImageWidth - 2), y \in 1..(ImageHeight - 2)}
InteriorCount == (ImageWidth - 2) * (ImageHeight - 2)
\* the k-th interior pixel of the nested for loops, k from 0
ScanX(k) == 1 + (k % (ImageWidth - 2))
ScanY(k) == 1 + (k \div (ImageWidth - 2))

\* roundedGradient: zero outside the interior; all pixels of an input have the
\* same direction
GradientField(magnitude, direction) ==
  [i \in Pixels |-> IF i \in InteriorPixels
                      THEN [magnitude |-> magnitude[i], direction |-> direction]
                      ELSE [magnitude |-> 0, direction |-> 0]]

\* Canny::Process: lowThreshold = highThreshold / 2, passed as unsigned char
LowThreshold(high) == high \div 2

Suppress(gradient, x, y) ==
  LET magnitude == gradient[PixelIndex(x, y)].magnitude
      direction == gradient[PixelIndex(x, y)].direction
      at(dx, dy) == gradient[PixelIndex(x + dx, y + dy)].magnitude
  IN CASE direction = 0 -> magnitude < at(-1, 0) \/ magnitude < at(1, 0)
       [] direction = 1 -> magnitude < at(-1, -1) \/ magnitude < at(1, 1)
       [] direction = 2 -> magnitude < at(0, -1) \/ magnitude < at(0, 1)
       [] direction = 3 -> magnitude < at(1, -1) \/ magnitude < at(-1, 1)

NoEdge == [strong |-> 0, weak |-> 0, visited |-> 0]

\* the thresholding loop: the three channels of every pixel
Classify(gradient, lowThreshold, high) ==
  [i \in Pixels |->
     IF i \notin InteriorPixels THEN NoEdge
     ELSE LET magnitude == gradient[i].magnitude
          IN IF Suppress(gradient, i % ImageWidth, i \div ImageWidth)
                  \/ magnitude < lowThreshold
               THEN NoEdge
               ELSE [strong |-> IF magnitude >= high THEN 255 ELSE 0,
                     weak |-> IF magnitude < high THEN magnitude ELSE 0,
                     visited |-> 0]]

Neighbours(x, y) ==
  {PixelIndex(x + dx, y + dy) : dx \in {-1, 0, 1}, dy \in {-1, 0, 1}}
    \ {PixelIndex(x, y)}

\* the body of the two for loops of the hysteresis pass at pixel (x,y): the
\* buffer and whether found was set
VisitPixel(buffer, x, y) ==
  LET index == PixelIndex(x, y)
  IN IF buffer[index].strong = 0 \/ buffer[index].visited = 255
       THEN [buffer |-> buffer, found |-> FALSE]
       ELSE [buffer |->
               [i \in Pixels |->
                  IF i = index THEN [buffer[i] EXCEPT !.visited = 255]
                  ELSE IF i \in Neighbours(x, y) /\ buffer[i].weak # 0
                         THEN [buffer[i] EXCEPT !.strong = 255, !.weak = 0]
                         ELSE buffer[i]],
             found |-> TRUE]

InitCanny ==
  /\ InitCache
  /\ InitTrainingIdle
  /\ InitSolveIdle
  /\ InitHoughIdle
  /\ InitNetworkIdle
  /\ \E magnitude \in [InteriorPixels -> Magnitudes], direction \in 0..3 :
       roundedGradient = GradientField(magnitude, direction)
  /\ highThreshold \in HighThresholds
  /\ nonMaximumSuppression = [i \in Pixels |-> NoEdge]
  /\ found = FALSE
  /\ scanIndex = 0
  /\ cannyPc = "entry"

\* non-maximum suppression and thresholding, up to  bool found = false;
Threshold ==
  /\ cannyPc = "entry"
  /\ nonMaximumSuppression' =
       Classify(roundedGradient, LowThreshold(highThreshold), highThreshold)
  /\ found' = FALSE
  /\ cannyPc' = "while"
  /\ UNCHANGED << cacheVars, trainVars, solveVars, houghVars, networkVars, roundedGradient, highThreshold, scanIndex >>

\* while(!found) { found = false; ...
HysteresisWhile ==
  /\ cannyPc = "while"
  /\ IF ~ found
       THEN /\ found' = FALSE
            /\ scanIndex' = 0
            /\ cannyPc' = "pass"
       ELSE /\ cannyPc' = "done"
            /\ UNCHANGED << found, scanIndex >>
  /\ UNCHANGED << cacheVars, trainVars, solveVars, houghVars, networkVars, roundedGradient, highThreshold,
                  nonMaximumSuppression >>

\* one iteration of the inner for loop, or the end of the pass
HysteresisVisit ==
  /\ cannyPc = "pass"
  /\ IF scanIndex < InteriorCount
       THEN LET visit == VisitPixel(nonMaximumSuppression, ScanX(scanIndex),
                                    ScanY(scanIndex))
            IN /\ nonMaximumSuppression' = visit.buffer
               /\ found' = (found \/ visit.found)
               /\ scanIndex' = scanIndex + 1
               /\ cannyPc' = "pass"
       ELSE /\ cannyPc' = "while"
            /\ UNCHANGED << nonMaximumSuppression, found, scanIndex >>
  /\ UNCHANGED << cacheVars, trainVars, solveVars, houghVars, networkVars, roundedGradient, highThreshold >>

\* A pass that finds no unvisited strong pixel changes nothing, so the loop
\* then repeats without input or output, volatile access or synchronisation:
\* the build may assume that it ends.
HysteresisAssumedToEnd ==
  /\ cannyPc = "while"
  /\ ~ found
  /\ \A i \in InteriorPixels :
       nonMaximumSuppression[i].strong = 0 \/ nonMaximumSuppression[i].visited = 255
  /\ cannyPc' = "done"
  /\ UNCHANGED << cacheVars, trainVars, solveVars, houghVars, networkVars, roundedGradient, highThreshold,
                  nonMaximumSuppression, found, scanIndex >>

NextCanny ==
  \/ Threshold
  \/ HysteresisWhile
  \/ HysteresisVisit
  \/ HysteresisAssumedToEnd

SpecCanny == InitCanny /\ [][NextCanny]_vars

\* the thread running Canny::Process is scheduled as long as it can run
SpecCannyLive == SpecCanny /\ WF_vars(NextCanny)

(***************************************************************************)
(* SpecHough: FindLines of sudoku_solver.cpp on an accumulator of          *)
(* HoughWidth x HoughHeight cells.  Angles are kept exactly, in units of   *)
(* pi / HoughWidth, and rho in units of maxR / HoughHeight; the float      *)
(* rounding of the source is left out.                                     *)
(***************************************************************************)
HoughWidth == 8
HoughHeight == 3
RADIUS == 5
MINIMUM_VALUE == 200
CellValues == {199, 200, 201}

Cells == 0..(HoughWidth * HoughHeight - 1)
CellX(cell) == cell % HoughWidth
CellY(cell) == cell \div HoughWidth

\* accumulators that are zero but for at most two cells
Accumulators ==
  {[cell \in Cells |-> IF cell = first THEN firstValue
                       ELSE IF cell = second THEN secondValue ELSE 0] :
     first \in Cells, second \in Cells,
     firstValue \in CellValues, secondValue \in CellValues \cup {0}}

\* the lambda ExtractValue: 0 outside the frame, where a negative coordinate
\* has become a large unsigned one
ExtractValue(frame, x, y) ==
  IF x < 0 \/ y < 0 \/ x >= HoughWidth \/ y >= HoughHeight
    THEN 0
    ELSE frame[y * HoughWidth + x]

\* the sliding window test of FindLines at cell (x,y)
IsPeak(frame, x, y) ==
  /\ ~ (ExtractValue(frame, x, y) < MINIMUM_VALUE)
  /\ \A ny \in (0 - RADIUS)..RADIUS, nx \in (0 - RADIUS)..RADIUS :
       (nx = 0 /\ ny = 0)
         \/ ~ (ExtractValue(frame, x, y) < ExtractValue(frame, x + nx, y + ny))

\* the conversion without the step that makes rho positive
HesseNormalFormRaw(x, y) ==
  [theta |-> x, rho |-> 2 * y - HoughHeight]

\* the conversion of a peak into Hesse normal form: theta = x / width * pi and
\* rho = (y - height / 2) * maxR / (height / 2), then theta + pi modulo 2 pi
\* and -rho if rho is negative
HesseNormalForm(x, y) ==
  LET theta == x
      rho == 2 * y - HoughHeight
  IN IF rho < 0
       THEN [theta |-> (theta + HoughWidth) % (2 * HoughWidth), rho |-> 0 - rho]
       ELSE [theta |-> theta, rho |-> rho]

\* the members of a set of cells in raster order
RasterOrder(cells) ==
  [k \in 1..Cardinality(cells) |->
     CHOOSE cell \in cells : Cardinality({other \in cells : other < cell}) = k - 1]

InitHough ==
  /\ InitCache
  /\ InitTrainingIdle
  /\ InitSolveIdle
  /\ InitCannyIdle
  /\ InitNetworkIdle
  /\ houghTransformFrame \in Accumulators
  /\ lines = << >>
  /\ peaks = << >>
  /\ houghPc = "entry"

FindLines ==
  /\ houghPc = "entry"
  /\ LET order == RasterOrder({cell \in Cells :
                     IsPeak(houghTransformFrame, CellX(cell), CellY(cell))})
     IN /\ peaks' = order
        /\ lines' = [k \in 1..Len(order) |->
                       HesseNormalForm(CellX(order[k]), CellY(order[k]))]
  /\ houghPc' = "done"
  /\ UNCHANGED << cacheVars, trainVars, solveVars, cannyVars, networkVars, houghTransformFrame >>

NextHough == FindLines

SpecHough == InitHough /\ [][NextHough]_vars

(***************************************************************************)
(* NeuralNetworkData: the network, its binary file, and the calls of       *)
(* NeuralNetwork::Train and NeuralNetwork::Run that use them.              *)
(*                                                                         *)
(* A float is the four bytes of its object representation, lowest first:  *)
(* SaveAsBinary and LoadFromBinary copy these bytes, and two floats are    *)
(* bit-equal when the bytes are.  An unsigned int is a number in memory    *)
(* and four bytes in the file.                                             *)
(***************************************************************************)
MaxSamples == 2
InputLength == 1
InputValues == {0, 1}
Labels == {1, 2}
SIMD_PADDING == 8

Float0 == << 0, 0, 0, 0 >>
Float1 == << 0, 0, 128, 63 >>
FloatQuarter == << 0, 0, 128, 62 >>
FloatMinusQuarter == << 0, 0, 128, 190 >>

\* static_cast<float>(value) of the unsigned chars the training inputs hold
ToFloat(value) == IF value = 0 THEN Float0 ELSE Float1

\* the number a float stands for, in quarters
FloatValue(float) ==
  IF float = Float1 THEN 4
  ELSE IF float = FloatQuarter THEN 1
  ELSE IF float = FloatMinusQuarter THEN 0 - 1
  ELSE 0

\* what randomNumberGenerator() / max() - 0.5 may give
RandomWeights == {FloatMinusQuarter, Float0, FloatQuarter}
\* what back propagation may leave in a weight
TrainedWeights == {FloatMinusQuarter, Float0, FloatQuarter, Float1}

RECURSIVE Pad(_)
Pad(vec) == IF Len(vec) % SIMD_PADDING = 0 THEN vec ELSE Pad(Append(vec, Float0))

PrepareVector(vec) == Pad(Append(vec, Float1))

\* the samples NeuralNetwork::Train is given: never an empty vector
Samples == [first : [1..InputLength -> InputValues], second : Labels]
TrainingSets == UNION {[1..n -> Samples] : n \in 1..MaxSamples}

\* the sorted std::set of the expected outputs
TrainingDataOutputChoices(data) ==
  LET outputChoiceSet == {data[i].second : i \in 1..Len(data)}
  IN [k \in 1..Cardinality(outputChoiceSet) |->
        CHOOSE c \in outputChoiceSet :
          Cardinality({other \in outputChoiceSet : other < c}) = k - 1]

\* WriteValue<unsigned int>: the four bytes of the value, lowest first
WriteValue(value) ==
  << value % 256, (value \div 256) % 256, (value \div 65536) % 256,
     (value \div 16777216) % 256 >>

\* ReadValue<unsigned int> at a position of the stream
ReadValue(stream, pos) ==
  stream[pos] + 256 * stream[pos + 1] + 65536 * stream[pos + 2]
    + 16777216 * stream[pos + 3]

\* outFile.write of the floats of a vector
RECURSIVE WriteFloats(_)
WriteFloats(vec) ==
  IF vec = << >> THEN << >> ELSE Head(vec) \o WriteFloats(Tail(vec))

\* inFile.read of count floats at a position
ReadFloats(stream, pos, count) ==
  [k \in 1..count |-> SubSeq(stream, pos + 4 * (k - 1), pos + 4 * k - 1)]

RECURSIVE WriteTrainingData(_)
WriteTrainingData(data) ==
  IF data = << >> THEN << >>
  ELSE WriteValue(Head(data).second) \o WriteValue(Len(Head(data).first))
         \o WriteFloats(Head(data).first) \o WriteTrainingData(Tail(data))

RECURSIVE WriteNeurons(_)
WriteNeurons(layer) ==
  IF layer = << >> THEN << >>
  ELSE WriteValue(Len(Head(layer))) \o WriteFloats(Head(layer))
         \o WriteNeurons(Tail(layer))

RECURSIVE WriteLayers(_)
WriteLayers(ls) ==
  IF ls = << >> THEN << >>
  ELSE WriteValue(Len(Head(ls))) \o WriteNeurons(Head(ls)) \o WriteLayers(Tail(ls))

\* the bytes SaveAsBinary writes for a network
SaveAsBinaryBytes(data, ls, choices) ==
  WriteValue(Len(data)) \o WriteTrainingData(data) \o WriteValue(0)
    \o WriteValue(Len(ls)) \o WriteLayers(ls)
    \o WriteValue(Len(choices)) \o choices

\* the loops of LoadFromBinary: what was read, and where the stream then is
RECURSIVE ReadTrainingData(_, _, _)
ReadTrainingData(stream, pos, count) ==
  IF count = 0 THEN [read |-> << >>, pos |-> pos]
  ELSE LET expectedValue == ReadValue(stream, pos)
           inputValueSize == ReadValue(stream, pos + 4)
           inputValues == ReadFloats(stream, pos + 8, inputValueSize)
           rest == ReadTrainingData(stream, pos + 8 + 4 * inputValueSize, count - 1)
       IN [read |-> << [first |-> inputValues, second |-> expectedValue % 256] >>
                      \o rest.read,
           pos |-> rest.pos]

RECURSIVE ReadNeurons(_, _, _)
ReadNeurons(stream, pos, count) ==
  IF count = 0 THEN [read |-> << >>, pos |-> pos]
  ELSE LET neuronSize == ReadValue(stream, pos)
           neuron == ReadFloats(stream, pos + 4, neuronSize)
           rest == ReadNeurons(stream, pos + 4 + 4 * neuronSize, count - 1)
       IN [read |-> << neuron >> \o rest.read, pos |-> rest.pos]

RECURSIVE ReadLayers(_, _, _)
ReadLayers(stream, pos, count) ==
  IF count = 0 THEN [read |-> << >>, pos |-> pos]
  ELSE LET layerSize == ReadValue(stream, pos)
           layer == ReadNeurons(stream, pos + 4, layerSize)
           rest == ReadLayers(stream, layer.pos, count - 1)
       IN [read |-> << layer.read >> \o rest.read, pos |-> rest.pos]

\* what LoadFromBinary reads from the file, before it derives inputSize
LoadFromBinaryRead(stream) ==
  LET trainingDataSize == ReadValue(stream, 1)
      data == ReadTrainingData(stream, 5, trainingDataSize)
      layersSize == ReadValue(stream, data.pos + 4)
      ls == ReadLayers(stream, data.pos + 8, layersSize)
      outputChoicesSize == ReadValue(stream, ls.pos)
  IN [trainingData |-> data.read,
      layers |-> ls.read,
      outputChoices |-> SubSeq(stream, ls.pos + 4, ls.pos + 3 + outputChoicesSize)]

\* the sum of RunNeuronTrained, in quarters; Sigmoid is increasing, and
\* Run only compares the outputs of the last layer
RECURSIVE WeightedSum(_, _, _)
WeightedSum(weights, input, x) ==
  IF x > Len(input) THEN 0
  ELSE FloatValue(weights[x]) * input[x] + WeightedSum(weights, input, x + 1)

RunNeuronTrained(weights, input) ==
  WeightedSum(weights, input, 1) + FloatValue(weights[Len(input) + 1])

\* the outputs of the last of the two layers
RunNetworkTrained(ls, data) ==
  LET hidden == [y \in 1..Len(ls[1]) |-> RunNeuronTrained(ls[1][y], data)]
  IN [y \in 1..Len(ls[2]) |-> RunNeuronTrained(ls[2][y], hidden)]

\* std::max_element: the first of the largest
MaxElement(outputs) ==
  CHOOSE y \in 1..Len(outputs) :
    /\ \A z \in 1..Len(outputs) : outputs[z] <= outputs[y]
    /\ \A z \in 1..(y - 1) : outputs[z] < outputs[y]

\* NeuralNetwork::Run on a network [inputSize, layers, outputChoices]
Run(network, inputData) ==
  IF Len(inputData) # network.inputSize THEN 0
  ELSE LET outputs == RunNetworkTrained(network.layers, inputData)
       IN IF outputs = << >> THEN 0
          ELSE network.outputChoices[MaxElement(outputs)]

\* the inputs Run is asked about: of the size the network was trained with
RunInputs == [1..SIMD_PADDING -> {1}] \cup [1..InputLength -> InputValues]

Network ==
  [inputSize |-> inputSize, layers |-> layers, outputChoices |-> outputChoices]

\* what inputSize may hold after trainingData[0] was read from an empty vector
UndefinedSizes == {0, SIMD_PADDING, 2 * SIMD_PADDING}

InitNetwork ==
  /\ InitCache
  /\ InitTrainingIdle
  /\ InitSolveIdle
  /\ InitCannyIdle
  /\ InitHoughIdle
  /\ inputSize = 0
  /\ outputChoices = << >>
  /\ trainingData = << >>
  /\ layers = << >>
  /\ binaryFile = NoFile
  /\ saved = << >>
  /\ networkPc = "empty"

\* InitializeWithTrainingData, as NeuralNetwork::Train calls it when no
\* earlier session could be loaded
InitializeWithTrainingData ==
  /\ networkPc \in {"empty", "failed"}
  /\ \E given \in TrainingSets :
       LET cleared == 0
           data == [i \in 1..Len(given) |->
                      [first |-> PrepareVector([x \in 1..InputLength |->
                                                  ToFloat(given[i].first[x])]),
                       second |-> given[i].second]]
           choices == TrainingDataOutputChoices(data)
           hiddenSize == cleared \div 2
           previousLayerSize == hiddenSize
       IN /\ trainingData' = data
          /\ outputChoices' = choices
          /\ \E random \in [1..Len(choices) -> RandomWeights] :
               layers' =
                 << [y \in 1..hiddenSize |->
                       PrepareVector([x \in 1..(cleared + 1) |-> Float0])],
                    [y \in 1..Len(choices) |->
                       PrepareVector([x \in 1..(previousLayerSize + 1) |-> random[y]])] >>
          /\ inputSize' = Len(data[1].first)
  /\ networkPc' = "training"
  /\ UNCHANGED << cacheVars, trainVars, solveVars, cannyVars, houghVars, binaryFile, saved >>

\* one pass of back propagation: UpdateWeights adds input * multiplier to the
\* weights, and the only non-zero input of an output neuron is the 1.0f term
TrainingIteration ==
  /\ networkPc = "training"
  /\ \E y \in 1..Len(layers[2]), weight \in TrainedWeights :
       /\ weight # layers[2][y][1]
       /\ layers' = [layers EXCEPT ![2][y][1] = weight]
  /\ UNCHANGED << cacheVars, trainVars, solveVars, cannyVars, houghVars, inputSize,
                  outputChoices, trainingData, binaryFile, saved, networkPc >>

\* the end of NeuralNetwork::Train: the training data is dropped
TrainingDone ==
  /\ networkPc = "training"
  /\ trainingData' = << >>
  /\ networkPc' = "trained"
  /\ UNCHANGED << cacheVars, trainVars, solveVars, cannyVars, houghVars, inputSize,
                  outputChoices, layers, binaryFile, saved >>

SaveAsBinary ==
  /\ networkPc \in {"training", "trained"}
  /\ binaryFile' = SaveAsBinaryBytes(trainingData, layers, outputChoices)
  /\ saved' = << Network >>
  /\ UNCHANGED << cacheVars, trainVars, solveVars, cannyVars, houghVars, inputSize,
                  outputChoices, trainingData, layers, networkPc >>

\* LoadFromBinary into a fresh NeuralNetworkData, as NeuralNetwork::Train does
LoadFromBinary ==
  /\ networkPc \in {"empty", "training", "trained", "loaded"}
  /\ IF binaryFile = NoFile
     THEN /\ inputSize' = 0
          /\ outputChoices' = << >>
          /\ trainingData' = << >>
          /\ layers' = << >>
          /\ networkPc' = "failed"
     ELSE LET loaded == LoadFromBinaryRead(binaryFile)
          IN /\ trainingData' = loaded.trainingData
             /\ layers' = loaded.layers
             /\ outputChoices' = loaded.outputChoices
             /\ IF loaded.trainingData # << >>
                THEN /\ inputSize' = Len(loaded.trainingData[1].first)
                     /\ networkPc' = "loaded"
                ELSE \/ /\ inputSize' \in UndefinedSizes
                        /\ networkPc' = "loaded"
                     \/ /\ inputSize' = 0
                        /\ networkPc' = "crashed"
  /\ UNCHANGED << cacheVars, trainVars, solveVars, cannyVars, houghVars, binaryFile, saved >>

\* NeuralNetwork::Train resumes the session it loaded when that still holds
\* training data
TrainingResumed ==
  /\ networkPc = "loaded"
  /\ trainingData # << >>
  /\ networkPc' = "training"
  /\ UNCHANGED << cacheVars, trainVars, solveVars, cannyVars, houghVars, inputSize,
                  outputChoices, trainingData, layers, binaryFile, saved >>

NextNetwork ==
  \/ InitializeWithTrainingData
  \/ TrainingIteration
  \/ TrainingDone
  \/ SaveAsBinary
  \/ LoadFromBinary
  \/ TrainingResumed

SpecNetwork == InitNetwork /\ [][NextNetwork]_vars

(***************************************************************************)
(* NeuralNetwork::Train with NeuralNetworkData::Save and Load: the loop of *)
(* 1500 passes over the training data, the saves inside it, and the runs   *)
(* of the program one after the other on the same file.                    *)
(*                                                                         *)
(* training.file is 0 while the file does not exist, otherwise 1 + the     *)
(* number of training samples Save wrote into it.  training.samples is the *)
(* size of trainingData in memory.                                         *)
(***************************************************************************)
MaxRuns == 2
TRAINING_ITERATIONS == 1500
SAVE_INTERVAL == 25

\* the samples the caller passes: Train returns at once on an empty vector
GivenSamples == {1, 2}

\* the condition of the save inside the loop, only on the loop index
SaveDueOnInterval(x, totalErrorLow) == x # 0 /\ (x % SAVE_INTERVAL) = 0

\* if(totalError < 1.0f || (x != 0 && (x % 25) == 0))
SaveDue(x, totalErrorLow) == totalErrorLow \/ (x # 0 /\ (x % SAVE_INTERVAL) = 0)

InitTrain ==
  /\ InitCache
  /\ InitSolveIdle
  /\ InitCannyIdle
  /\ InitHoughIdle
  /\ InitNetworkIdle
  /\ training = [NoTraining EXCEPT !.pc = "call", !.run = 1]

\* if(!nn.data->Load()) nn.data->InitializeWithTrainingData(trainingData);
TrainLoad ==
  /\ training.pc = "call"
  /\ IF training.file = 0
       THEN \E given \in GivenSamples :
              training' = [training EXCEPT !.pc = "loaded", !.samples = given]
       ELSE IF training.file = 1
         THEN training' = [training EXCEPT !.pc = "crashed"]
         ELSE training' = [training EXCEPT !.pc = "loaded",
                                           !.samples = training.file - 1]
  /\ UNCHANGED << cacheVars, solveVars, cannyVars, houghVars, networkVars >>

\* if(nn.data->trainingData.empty()) return nn;
TrainSkipCheck ==
  /\ training.pc = "loaded"
  /\ training' = [training EXCEPT
                    !.pc = IF training.samples = 0 THEN "returned" ELSE "loop"]
  /\ UNCHANGED << cacheVars, solveVars, cannyVars, houghVars, networkVars >>

\* one pass of the for loop over x: the back propagation over the training
\* data, whose summed error is or is not below 1, then the save
TrainIteration ==
  /\ training.pc = "loop"
  /\ training.x < TRAINING_ITERATIONS
  /\ \E low \in BOOLEAN :
       \E due \in {SaveDue(training.x, low)} :
         training' = [training EXCEPT
                        !.x = training.x + 1,
                        !.epochs = training.epochs + 1,
                        !.totalErrorLow = low,
                        !.saved = due,
                        !.file = IF due THEN 1 + training.samples ELSE training.file]
  /\ UNCHANGED << cacheVars, solveVars, cannyVars, houghVars, networkVars >>

\* the loop has ended: trainingData.clear(), return nn
TrainReturn ==
  /\ training.pc = "loop"
  /\ training.x = TRAINING_ITERATIONS
  /\ training' = [training EXCEPT !.pc = "returned", !.samples = 0]
  /\ UNCHANGED << cacheVars, solveVars, cannyVars, houghVars, networkVars >>

\* the program is started again: a new NeuralNetwork, the same file
NextRun ==
  /\ training.pc = "returned"
  /\ training.run < MaxRuns
  /\ training' = [NoTraining EXCEPT
                    !.pc = "call",
                    !.run = training.run + 1,
                    !.file = training.file,
                    !.completed = TRUE]
  /\ UNCHANGED << cacheVars, solveVars, cannyVars, houghVars, networkVars >>

NextTrain ==
  \/ TrainLoad
  \/ TrainSkipCheck
  \/ TrainIteration
  \/ TrainReturn
  \/ NextRun

SpecTrain == InitTrain /\ [][NextTrain]_vars

(***************************************************************************)
(* Vocabulary of the properties.                                           *)
(***************************************************************************)
\* the step is the finishing of the background task, not a call
TaskStep == ~ solvingFuture.ready /\ solvingFuture'.ready

\* the step is a call of Solve; its argument is digitsArg'
SolveStep == lastCall' = "Solve" /\ ~ TaskStep

\* the cells of the 9 rows, 9 columns and 9 blocks
Units ==
  {{r * 9 + c + 1 : c \in 0..8} : r \in 0..8}
    \cup {{r * 9 + c + 1 : r \in 0..8} : c \in 0..8}
    \cup {{(3 * br + r) * 9 + 3 * bc + c + 1 : r \in 0..2, c \in 0..2} :
            br \in 0..2, bc \in 0..2}

\* 81 digits, none zero, none repeated in a row, column or block
CompleteValidBoard(board) ==
  /\ Len(board) = 81
  /\ \A i \in 1..81 : board[i] \in 1..9
  /\ \A unit \in Units : {board[i] : i \in unit} = 1..9

\* the boards left by the successful runs of the pure solver on the inputs
SuccessfulBoards ==
  {GameToDigits(entry[2].game) : entry \in {e \in PureSolveTable : e[2].result}}

\* the input fails validation as the claim C9 lists it
FailsValidation(digits) ==
  \/ Len(digits) # 81
  \/ \E i \in 1..81 : digits[i] > 9
  \/ \E unit \in Units : \E i, j \in unit :
       i # j /\ digits[i] # 0 /\ digits[i] = digits[j]
  \/ Cardinality({i \in 1..81 : digits[i] # 0}) < 21

FailingInputs ==
  {entry[1] : entry \in {e \in {<< digits, FailsValidation(digits) >> :
                                  digits \in InputDigits} : e[2]}}

\* the key -> solution part of the map, without the counters
SolutionsOf(puzzles) ==
  [i \in 1..Len(puzzles) |-> << puzzles[i].first, puzzles[i].second.digits >>]

\* the entry GetMostLikelySolution selects is a near match of digits
MostLikelyIsNear(puzzles, recentlyUsed, digits) ==
  /\ recentlyUsed # << >>
  /\ Len(digits) = 81
  /\ LET key == puzzles[recentlyUsed[MostLikelyPosition(puzzles, recentlyUsed)]].first
     IN Cardinality({x \in 1..81 : digits[x] # key[x]}) <= 3

MostLikelyDigits(puzzles, recentlyUsed) ==
  puzzles[recentlyUsed[MostLikelyPosition(puzzles, recentlyUsed)]].second.digits

(***************************************************************************)
(* C1: at every moment at most one background task exists: the number of   *)
(* tasks launched and not yet collected is 0 or 1, and it is 1 exactly     *)
(* while solvingFuture is valid.                                           *)
(***************************************************************************)
C1_AtMostOneTask ==
  /\ tasks \in {0, 1}
  /\ (tasks = 1) = solvingFuture.valid

\* a valid uncached puzzle was presented while the task was in flight
C1_Witness ==
  /\ tasks = 1
  /\ lastCall = "Solve"
  /\ digitsArg \in ValidInputs
  /\ ~ ret
  /\ ~ launched
  /\ ~ solvingFuture.ready

(***************************************************************************)
(* C2: when a call Solve(d) collects the successful result of the task     *)
(* launched for d, it returns d's solution in that call and launches       *)
(* nothing.                                                                *)
(***************************************************************************)
C2_SolvedPuzzleReturnedOnNextCall ==
  [][(/\ SolveStep
      /\ ResultReady(solvingFuture)
      /\ solvingFuture.value
      /\ digitsArg' = solvingDigits)
       => (/\ ret'
           /\ solution' = GameToDigits(solvingGame)
           /\ solution' = GameToDigits(PureSolveOf(GameOf(digitsArg')).game)
           /\ ~ launched'
           /\ ~ solvingFuture'.valid
           /\ tasks' = 0)]_vars

\* the call that collected the task of PuzzleB was Solve(PuzzleB)
C2_Witness ==
  /\ lastCall = "Solve"
  /\ collected = "success"
  /\ digitsArg = PuzzleB
  /\ Len(solvedPuzzles) = 1
  /\ solvedPuzzles[1].first = PuzzleB
  /\ solution = SwappedBoard

(***************************************************************************)
(* C3 as claimed: if Solve(d) returns a solution, the immediately          *)
(* following call Solve(d) returns the same solution.                      *)
(***************************************************************************)
C3_Original ==
  [][(SolveStep /\ lastCall = "Solve" /\ ret /\ digitsArg' = digitsArg)
       => (ret' /\ solution' = solution)]_vars

(***************************************************************************)
(* C3 amended: if Solve(d) returns a solution and d is a key of the cache  *)
(* (the call was an exact hit), the immediately following call Solve(d)    *)
(* returns the same solution in that call.                                 *)
(***************************************************************************)
C3_RepeatedExactHit ==
  [][(/\ SolveStep
      /\ lastCall = "Solve"
      /\ ret
      /\ digitsArg' = digitsArg
      /\ Find(solvedPuzzles, digitsArg) # 0)
       => (ret' /\ solution' = solution /\ ~ launched')]_vars

C3_Witness ==
  /\ again
  /\ ret
  /\ Find(solvedPuzzles, digitsArg) # 0
  /\ solution = solvedPuzzles[Find(solvedPuzzles, digitsArg)].second.digits

C5_Original ==
  [][(/\ SolveStep
      /\ digitsArg' \notin FailingInputs
      /\ Find(solvedPuzzles', digitsArg') # 0)
       => LET iter == Find(solvedPuzzles', digitsArg')
              before == IF iter <= Len(solvedPuzzles)
                          THEN Count(solvedPuzzles, iter) ELSE 0
          IN /\ ret'
             /\ solution' = solvedPuzzles'[iter].second.digits
             /\ Count(solvedPuzzles', iter) = before + 1
             /\ recentlyUsedSolutions' =
                  IF Len(recentlyUsedSolutions) + 1 > 10
                    THEN Tail(Append(recentlyUsedSolutions, iter))
                    ELSE Append(recentlyUsedSolutions, iter)]_vars

(***************************************************************************)
(* C5 amended: a Solve call whose valid digits are a key of the cache      *)
(* returns the cached solution, adds one to that entry's counter and       *)
(* appends the entry to the deque; only if the deque then holds more than  *)
(* 10 elements is the oldest element removed, and the counter of the entry *)
(* it refers to is then decreased by one, so that the counter of the entry *)
(* hit ends one higher unless the removed element is that same entry.      *)
(***************************************************************************)
C5_ExactHitRecorded ==
  [][(/\ SolveStep
      /\ digitsArg' \notin FailingInputs
      /\ Find(solvedPuzzles', digitsArg') # 0)
       => LET iter == Find(solvedPuzzles', digitsArg')
              full == Len(recentlyUsedSolutions) + 1 > 10
              before(i) == IF i <= Len(solvedPuzzles)
                             THEN Count(solvedPuzzles, i) ELSE 0
          IN /\ ret'
             /\ solution' = solvedPuzzles'[iter].second.digits
             /\ recentlyUsedSolutions' =
                  IF full THEN Tail(Append(recentlyUsedSolutions, iter))
                  ELSE Append(recentlyUsedSolutions, iter)
             /\ \A i \in 1..Len(solvedPuzzles') :
                  Count(solvedPuzzles', i) =
                    before(i) + (IF i = iter THEN 1 ELSE 0)
                      - (IF full /\ Head(recentlyUsedSolutions) = i THEN 1 ELSE 0)]_vars

\* an exact hit on a deque of 10 elements whose oldest element was the entry hit
C5_Witness ==
  /\ lastCall = "Solve"
  /\ ret
  /\ popped
  /\ Len(recentlyUsedSolutions) = 10
  /\ Len(solvedPuzzles) = 2
  /\ Find(solvedPuzzles, digitsArg) = 2
  /\ recentlyUsedSolutions[10] = 2
  /\ Count(solvedPuzzles, 2) = 10

(***************************************************************************)
(* C6: a Solve call with a valid, uncached puzzle that is no near match,   *)
(* made while the task is still running, returns "not ready" and leaves    *)
(* the task, solvingDigits, solvingGame and the cached solutions as they   *)
(* were: the puzzle is not kept for a later launch.                        *)
(***************************************************************************)
C6_RequestDroppedWhileInFlight ==
  [][(/\ SolveStep
      /\ solvingFuture.valid
      /\ ~ solvingFuture.ready
      /\ digitsArg' \notin FailingInputs
      /\ Find(solvedPuzzles, digitsArg') = 0
      /\ ~ MostLikelyIsNear(solvedPuzzles, recentlyUsedSolutions, digitsArg'))
       => (/\ ~ ret'
           /\ ~ launched'
           /\ UNCHANGED << solvingDigits, solvingGame, solvingFuture, tasks >>
           /\ SolutionsOf(solvedPuzzles') = SolutionsOf(solvedPuzzles))]_vars

C6_Witness ==
  /\ lastCall = "Solve"
  /\ digitsArg = PuzzleNearB
  /\ ~ ret
  /\ ~ launched
  /\ solvingFuture = RunningFuture
  /\ solvingDigits = PuzzleA
  /\ solvedPuzzles # << >>

(***************************************************************************)
(* C7: a task that ends in failure leaves the cache as it was when the     *)
(* task was launched: no step taken while the task exists, the call that   *)
(* collects the failure included, adds a key or changes a cached solution, *)
(* and the collecting call leaves the map exactly as the same call would   *)
(* without a task.                                                         *)
(***************************************************************************)
C7_FailedTaskLeavesCache ==
  [][/\ (solvingFuture.valid /\ ~ (solvingFuture.ready /\ solvingFuture.value))
          => SolutionsOf(solvedPuzzles') = SolutionsOf(solvedPuzzles)
     /\ (SolveStep /\ solvingFuture.ready /\ ~ solvingFuture.value)
          => solvedPuzzles' =
               SolveBody(digitsArg', solvedPuzzles, InvalidFuture).puzzles]_vars

\* the failure was collected by a call that went on to hit the cache
C7_Witness ==
  /\ lastCall = "Solve"
  /\ collected = "failure"
  /\ ret
  /\ Len(solvedPuzzles) = 1
  /\ popped = FALSE

(***************************************************************************)
(* C8: every solution handed back by Solve or GetMostLikelySolution is a   *)
(* board left by a successful run of the pure solver: 81 digits, none      *)
(* zero, no digit repeated in a row, column or block.                      *)
(***************************************************************************)
C8_OnlySuccessfulSolutions ==
  ret => (CompleteValidBoard(solution) /\ solution \in SuccessfulBoards)

C8_Witness ==
  /\ lastCall = "GetMostLikelySolution"
  /\ ret
  /\ solution = SwappedBoard

(***************************************************************************)
(* C9: a Solve call whose input fails validation returns no solution and   *)
(* launches no task, whatever the cache and the deque hold.                *)
(***************************************************************************)
C9_InvalidInputRejected ==
  (lastCall = "Solve" /\ digitsArg \in FailingInputs)
    => (~ ret /\ ~ launched /\ solution = << >>)

\* 20 clues presented when a puzzle is cached and recently used and no task is
\* in flight
C9_Witness ==
  /\ lastCall = "Solve"
  /\ digitsArg = DigitsFewClues
  /\ ~ solvingFuture.valid
  /\ solvedPuzzles # << >>

(***************************************************************************)
(* C10 as claimed: GetMostLikelySolution returns the solution of an entry  *)
(* whose counter is the maximum over all entries, and returns "none" only  *)
(* when the cache is empty.                                                *)
(***************************************************************************)
C10_Original ==
  lastCall = "GetMostLikelySolution"
    => /\ ret => \E i \in 1..Len(solvedPuzzles) :
                   /\ solution = solvedPuzzles[i].second.digits
                   /\ \A j \in 1..Len(solvedPuzzles) :
                        Count(solvedPuzzles, j) <= Count(solvedPuzzles, i)
       /\ ~ ret => solvedPuzzles = << >>

(***************************************************************************)
(* C10 amended: GetMostLikelySolution returns the solution of an entry     *)
(* whose counter is the maximum over all entries, and returns "none"       *)
(* exactly when the recently-used deque is empty, which is also the case   *)
(* while solutions are cached and none of them is in the deque.            *)
(***************************************************************************)
C10_MostLikelySolution ==
  lastCall = "GetMostLikelySolution"
    => /\ ret => \E i \in 1..Len(solvedPuzzles) :
                   /\ solution = solvedPuzzles[i].second.digits
                   /\ \A j \in 1..Len(solvedPuzzles) :
                        Count(solvedPuzzles, j) <= Count(solvedPuzzles, i)
       /\ ret = (recentlyUsedSolutions # << >>)

\* the entry returned is not the oldest element of the deque
C10_Witness ==
  /\ lastCall = "GetMostLikelySolution"
  /\ ret
  /\ Len(solvedPuzzles) = 2
  /\ recentlyUsedSolutions[1] = 1
  /\ Count(solvedPuzzles, 2) > Count(solvedPuzzles, 1)
  /\ solution = solvedPuzzles[2].second.digits

(***************************************************************************)
(* C11: after every Solve call the recently-used deque holds at most 10    *)
(* elements.                                                               *)
(***************************************************************************)
C11_DequeBounded ==
  Len(recentlyUsedSolutions) <= 10

\* a hit that found 10 elements, of both cached entries, and removed the oldest
C11_Witness ==
  /\ lastCall = "Solve"
  /\ popped
  /\ Len(recentlyUsedSolutions) = 10
  /\ \E i, j \in 1..10 : recentlyUsedSolutions[i] # recentlyUsedSolutions[j]

(***************************************************************************)
(* Vocabulary of the properties of the pure solver.                        *)
(***************************************************************************)
\* puzzle is S with some cells blanked
BlankingOf(puzzle, S) == \A i \in 1..81 : puzzle[i] \in {0, S[i]}

\* some row, column or block holds the same non-zero digit twice
HasDuplicate(board) ==
  \E unit \in Units : \E i, j \in unit :
    i # j /\ board[i] # 0 /\ board[i] = board[j]

\* << puzzle, S >>: S is the only valid completion of the puzzle
UniquePuzzles ==
  { << StandardPuzzle, SolvedBoard >>, << PuzzleA, SolvedBoard >>,
    << FirstCellBlank, SolvedBoard >>, << SolvedBoard, SolvedBoard >>,
    << PuzzleB, SwappedBoard >>, << LastCellBlank, SwappedBoard >>,
    << SwappedBoard, SwappedBoard >> }

\* the valid completions of a board with at most MaxBlanks open cells
MaxBlanks == 4
Blanks(board) == {i \in 1..81 : board[i] = 0}
Completions(board) ==
  {filled \in {[i \in 1..81 |-> IF board[i] = 0 THEN filling[i] ELSE board[i]] :
                 filling \in [Blanks(board) -> 1..9]} : CompleteValidBoard(filled)}

\* the board has no valid completion: by enumeration when few cells are open,
\* otherwise because it adds to a puzzle with one solution a clue which that
\* solution does not have
NoCompletion(board) ==
  IF Cardinality(Blanks(board)) <= MaxBlanks
    THEN Completions(board) = {}
    ELSE \E pair \in UniquePuzzles :
           /\ \A i \in 1..81 : pair[1][i] # 0 => board[i] = pair[1][i]
           /\ \E i \in 1..81 : board[i] \notin {0, pair[2][i]}

NoCompletionBoards ==
  {entry[1] : entry \in {e \in {<< board, NoCompletion(board) >> :
                                  board \in SolveBoards} : e[2]}}

ConflictFreeBoards ==
  {entry[1] : entry \in {e \in {<< board, HasDuplicate(board) >> :
                                  board \in SolveBoards} : ~ e[2]}}

(***************************************************************************)
(* C12: for a valid completed board S and a puzzle obtained from S by      *)
(* blanking cells such that S is its only solution, the pure solver        *)
(* returns true and leaves the board equal to S, with no zeros.            *)
(***************************************************************************)
C12_UniqueSolutionFound ==
  \A pair \in UniquePuzzles :
    (/\ solvePc = "done"
     /\ solveInput = pair[1]
     /\ CompleteValidBoard(pair[2])
     /\ BlankingOf(pair[1], pair[2]))
      => (/\ solveRun.result
          /\ solveRun.game = pair[2]
          /\ \A i \in 1..81 : solveRun.game[i] # 0)

\* the standard puzzle has run to its canonical solution
C12_Witness ==
  /\ solvePc = "done"
  /\ solveInput = StandardPuzzle
  /\ solveRun.result
  /\ solveRun.game = SolvedBoard

(***************************************************************************)
(* C13 as claimed: the pure solver terminates on every board, never        *)
(* aborts (no cell ever holds a value the DigitSet asserts reject), and    *)
(* returns false whenever the board has no valid completion.               *)
(***************************************************************************)
C13_Original ==
  /\ <>(solvePc = "done")
  /\ [](\A i \in 1..81 : solveRun.game[i] \in 0..9)
  /\ []((solvePc = "done" /\ solveInput \in NoCompletionBoards)
          => ~ solveRun.result)

(***************************************************************************)
(* C13 amended: the pure solver terminates on every board and never        *)
(* aborts, and it returns false whenever the board has no valid completion *)
(* and no row, column or block of it holds a non-zero digit twice (the     *)
(* boards Solvable accepts).  On a board with such a duplicate it may      *)
(* return true.                                                            *)
(***************************************************************************)
C13_TerminatesAndRejects ==
  /\ <>(solvePc = "done")
  /\ [](\A i \in 1..81 : solveRun.game[i] \in 0..9)
  /\ []((/\ solvePc = "done"
         /\ solveInput \in NoCompletionBoards
         /\ solveInput \in ConflictFreeBoards)
          => ~ solveRun.result)

\* the search on the standard puzzle with a wrong clue has run out of guesses
C13_Witness ==
  /\ solvePc = "done"
  /\ solveInput = StandardWrongClue
  /\ ~ solveRun.result
  /\ solveRun.availableGuesses = << >>

(***************************************************************************)
(* C14: Solvable(board) is false exactly when some row, column or block    *)
(* holds the same non-zero digit twice; it is true for every completed     *)
(* valid board.  Checked on the boards passed in and on every board the    *)
(* search goes through.                                                    *)
(***************************************************************************)
C14_SolvableIffNoDuplicate ==
  /\ solvable # "unknown" => ((solvable = "false") = HasDuplicate(solveInput))
  /\ (solvable # "unknown" /\ CompleteValidBoard(solveInput)) => solvable = "true"
  /\ solvePc \in {"loop", "done"}
       => (Solvable(solveRun.game) = ~ HasDuplicate(solveRun.game))

\* the duplicate is in a block only
C14_Witness ==
  /\ solveInput = BlockConflictBoard
  /\ solvable = "false"

(***************************************************************************)
(* Vocabulary of the properties of the Canny stage.                        *)
(***************************************************************************)
IsStrong(buffer, i) == buffer[i].strong = 255
IsWeak(buffer, i) == buffer[i].strong = 0 /\ buffer[i].weak # 0
Adjacent(i, j) ==
  /\ i # j
  /\ (i % ImageWidth) - (j % ImageWidth) \in {-1, 0, 1}
  /\ (i \div ImageWidth) - (j \div ImageWidth) \in {-1, 0, 1}
\* thresholding has labelled no pixel STRONG
NoStrongPixel == \A i \in Pixels : ~ IsStrong(nonMaximumSuppression, i)

(***************************************************************************)
(* C15: the Canny stage terminates on every input image; on an image       *)
(* where no pixel reaches the high threshold hysteresis linking finishes   *)
(* and channel 0 of the output is all zero.                                *)
(***************************************************************************)
C15_CannyTerminates ==
  /\ <>(cannyPc = "done")
  /\ [](cannyPc = "done"
          => (NoStrongPixel => \A i \in Pixels : nonMaximumSuppression[i].strong = 0))

(***************************************************************************)
(* C16: when hysteresis linking finishes, every WEAK pixel connected to a  *)
(* STRONG seed through a chain of 8-neighbouring WEAK pixels is STRONG: no *)
(* WEAK pixel is left next to a STRONG pixel.                              *)
(***************************************************************************)
C16_HysteresisFixedPoint ==
  cannyPc = "done"
    => \A i, j \in Pixels :
         ~ (/\ Adjacent(i, j)
            /\ IsStrong(nonMaximumSuppression, i)
            /\ IsWeak(nonMaximumSuppression, j))

(***************************************************************************)
(* Vocabulary of the properties of the peak finder.                        *)
(***************************************************************************)
\* the other cells of the 11 x 11 window of a cell
Window(cell) ==
  {other \in Cells : /\ other # cell
                     /\ CellX(other) - CellX(cell) \in (0 - 5)..5
                     /\ CellY(other) - CellY(cell) \in (0 - 5)..5}

Reported == {peaks[k] : k \in 1..Len(peaks)}

(***************************************************************************)
(* C17: the peak finder reports a cell if and only if its value is at      *)
(* least 200 and strictly greater than every other cell of its 11 x 11     *)
(* window; of two equal cells in one window neither is reported.           *)
(***************************************************************************)
C17_StrictPeaks ==
  houghPc = "done"
    => \A cell \in Cells :
         cell \in Reported
           <=> (/\ houghTransformFrame[cell] >= 200
                /\ \A other \in Window(cell) :
                     houghTransformFrame[cell] > houghTransformFrame[other])

(***************************************************************************)
(* C18: every Line the peak finder produces has rho >= 0 and theta in      *)
(* [0, 2 pi), whichever cell it was produced for.                          *)
(***************************************************************************)
C18_LinesNormalised ==
  \A k \in 1..Len(lines) :
    /\ lines[k].rho >= 0
    /\ lines[k].theta >= 0
    /\ lines[k].theta < 2 * HoughWidth

\* a line of the upper half of the accumulator, turned by pi, and one of the
\* lower half
C18_Witness ==
  /\ houghPc = "done"
  /\ Len(lines) = 2
  /\ CellY(peaks[1]) = 0
  /\ lines[1].theta >= HoughWidth
  /\ lines[1].rho > 0
  /\ CellY(peaks[2]) = 2
  /\ lines[2].theta < HoughWidth

(***************************************************************************)
(* Vocabulary of the network file.                                         *)
(***************************************************************************)
\* LoadFromBinary has returned, or has ended the process
LoadEnded == networkPc \in {"loaded", "crashed"}

\* the network in memory is the one SaveAsBinary wrote, and Run agrees on it
SameAsSaved ==
  /\ networkPc = "loaded"
  /\ layers = saved[1].layers
  /\ outputChoices = saved[1].outputChoices
  /\ inputSize = saved[1].inputSize
  /\ \A inputData \in RunInputs : Run(Network, inputData) = Run(saved[1], inputData)

\* C19: whenever LoadFromBinary has read the file SaveAsBinary wrote, the
\* network in memory has the layers, the bit-equal weights, the output
\* choices and the input size of the saved one, and Run gives the same label
\* for every input.
C19_RoundTrip == LoadEnded => SameAsSaved

(***************************************************************************)
(* Vocabulary of the repeated puzzle.                                      *)
(***************************************************************************)
\* the last call was Solve with the shown puzzle
ShownCall == lastCall = "Solve" /\ digitsArg = ShownPuzzle

\* a task for another puzzle is in flight
OtherTaskInFlight ==
  solvingFuture.valid /\ ~ solvingFuture.ready /\ solvingDigits # ShownPuzzle

\* the call returned true and wrote a completion of the shown puzzle
ShownSolved ==
  /\ ShownCall
  /\ ret
  /\ CompleteValidBoard(solution)
  /\ BlankingOf(ShownPuzzle, solution)

\* C20: when the frame loop keeps calling Solve with the same solvable
\* puzzle and every launched task finishes, each call that did not return
\* the puzzle's solution is followed by a call that does, also when the task
\* of another puzzle was in flight at that call.
C20_EventuallySolved == (ShownCall /\ ~ ShownSolved) ~> ShownSolved

\* the shown puzzle was presented, and turned away, while the task of
\* another puzzle was in flight
C20_Witness == ShownCall /\ ~ ret /\ OtherTaskInFlight

(***************************************************************************)
(* Vocabulary of the search order.                                         *)
(***************************************************************************)
\* the guess the next loop iteration pops
TopGuess == solveRun.availableGuesses[Len(solveRun.availableGuesses)]

\* a digit is about to be tried
TryingDigit ==
  /\ solvePc = "loop"
  /\ solveRun.availableGuesses # << >>
  /\ TopGuess.type = "Set"

\* the digits still to be tried for the cell of the top guess, the top included
UntriedDigits ==
  {solveRun.availableGuesses[k].value :
     k \in {j \in 1..Len(solveRun.availableGuesses) :
              /\ solveRun.availableGuesses[j].type = "Set"
              /\ solveRun.availableGuesses[j].x = TopGuess.x
              /\ solveRun.availableGuesses[j].y = TopGuess.y}}

\* the cell of the top guess is the first empty cell in row-major order
FillsFirstEmptyCell ==
  /\ GameGet(solveRun.game, TopGuess.x, TopGuess.y) = EMPTY_VALUE
  /\ \A i \in 1..(TopGuess.y * WIDTH + TopGuess.x) : solveRun.game[i] # EMPTY_VALUE

\* board a comes before board b in the order of their cells read row by row
Precedes(a, b) ==
  \E i \in 1..81 : a[i] < b[i] /\ \A j \in 1..(i - 1) : a[j] = b[j]

\* the solver has returned true on a board whose completions are enumerated
SolvedEnumerated ==
  /\ solvePc = "done"
  /\ solveRun.result
  /\ solveInput \in ConflictFreeBoards
  /\ Cardinality(Blanks(solveInput)) <= MaxBlanks

(***************************************************************************)
(* C21 as claimed: the digit tried next is the smallest untried            *)
(* permissible digit of the first empty cell in row-major order, and among *)
(* several completions the solver returns the first in that order.         *)
(***************************************************************************)
C21_Original ==
  /\ TryingDigit =>
       (FillsFirstEmptyCell /\ \A digit \in UntriedDigits : TopGuess.value <= digit)
  /\ SolvedEnumerated =>
       (/\ solveRun.game \in Completions(solveInput)
        /\ \A other \in Completions(solveInput) :
             other = solveRun.game \/ Precedes(solveRun.game, other))

(***************************************************************************)
(* C21 amended: the pure solver always fills the first empty cell in       *)
(* row-major order and tries that cell's permissible digits in descending  *)
(* order (largest first: they are pushed in ascending order onto a stack), *)
(* so among several completions it returns the one reached by              *)
(* largest-digit-first depth-first search, the last in row-major order.    *)
(***************************************************************************)
C21_LargestDigitFirst ==
  /\ TryingDigit =>
       (FillsFirstEmptyCell /\ \A digit \in UntriedDigits : digit <= TopGuess.value)
  /\ SolvedEnumerated =>
       (/\ solveRun.game \in Completions(solveInput)
        /\ \A other \in Completions(solveInput) :
             other = solveRun.game \/ Precedes(other, solveRun.game))

\* of the two completions the solver has returned the one with the larger
\* digit in the first open cell
C21_Witness ==
  /\ solvePc = "done"
  /\ solveRun.result
  /\ solveInput = TwoCompletionsBoard
  /\ Cardinality(Completions(solveInput)) = 2
  /\ solveRun.game = SwappedBoard

\* C22: when the pure solver has returned false, the board is cell for
\* cell the board it was given: every trial digit has been cleared again.
C22_BoardRestoredOnFailure ==
  (solvePc = "done" /\ ~ solveRun.result) => solveRun.game = solveInput

\* the search on a board with three open cells has failed and left the board
\* as it was
C22_Witness ==
  /\ solvePc = "done"
  /\ ~ solveRun.result
  /\ solveInput = PuzzleNearA
  /\ solveRun.game = PuzzleNearA

\* C23: if the input board passes Solvable and the pure solver returns true,
\* the resulting board has no empty cell, has no digit repeated in a row,
\* column or block, and equals the input on every cell that was non-empty.
C23_SolutionCompleteAndValid ==
  (solvePc = "done" /\ solvable = "true" /\ solveRun.result)
    => (/\ CompleteValidBoard(solveRun.game)
        /\ BlankingOf(solveInput, solveRun.game))

\* a board that passes Solvable and whose first cell is open has been solved
C23_Witness ==
  /\ solvePc = "done"
  /\ solvable = "true"
  /\ solveRun.result
  /\ solveInput = FirstCellBlank
  /\ solveRun.game[1] # EMPTY_VALUE

(***************************************************************************)
(* Vocabulary of the task and the deque.                                   *)
(***************************************************************************)
\* the task launched by std::async has not yet made its future ready
InFlight == solvingFuture.valid /\ ~ solvingFuture.ready

\* the boards the running task may have written into solvingGame so far
TaskBoards == {solvingGame, EmptyGame, PureSolve(solvingGame).game}

\* the map as the call sees it after lines 321-329
Collected == CollectResult(solvedPuzzles, solvingFuture, solvingDigits, solvingGame)

\* the step is a Solve call that passes validation and finds its digits in
\* the map
ExactHitStep ==
  /\ SolveStep
  /\ digitsArg' \in ValidInputs
  /\ Find(Collected, digitsArg') # 0

\* how often the deque holds the iterator
Occurrences(recentlyUsed, iter) ==
  Cardinality({k \in 1..Len(recentlyUsed) : recentlyUsed[k] = iter})

(***************************************************************************)
(* C24: the task works on solvingGame, a copy of the caller's board made   *)
(* at the launch; while the task is in flight no step of the frame thread  *)
(* writes solvingGame or solvingDigits, and nothing the frame thread       *)
(* computes depends on what solvingGame holds.                             *)
(***************************************************************************)
C24_NoSharedBoardWhileInFlight ==
  /\ [](InFlight =>
          \A board \in TaskBoards :
            CollectResult(solvedPuzzles, solvingFuture, solvingDigits, board) = Collected)
  /\ [][/\ (InFlight /\ ~ TaskStep) => UNCHANGED << solvingGame, solvingDigits >>
        /\ (SolveStep /\ launched') => solvingGame' = DigitsToGame(digitsArg')]_vars

\* the frame thread called Solve with another valid puzzle while the task
\* of PuzzleB was in flight
C24_Witness ==
  /\ InFlight
  /\ lastCall = "Solve"
  /\ solvingDigits = PuzzleB
  /\ digitsArg = PuzzleNearA
  /\ solvingGame = DigitsToGame(PuzzleB)

(***************************************************************************)
(* C25 as claimed: an entry the recently-used deque has dropped is ejected *)
(* from the cache: when a step removes the last occurrence of an entry     *)
(* from the deque, the entry's key is no longer in the map.                *)
(***************************************************************************)
C25_Original ==
  [][\A i \in 1..Len(solvedPuzzles) :
       (/\ Occurrences(recentlyUsedSolutions, i) > 0
        /\ Occurrences(recentlyUsedSolutions', i) = 0)
         => Find(solvedPuzzles', solvedPuzzles[i].first) = 0]_vars

(***************************************************************************)
(* C25 amended: cache entries are inserted only by the call that collects  *)
(* a successful solve, and no entry is ever removed: an entry the          *)
(* recently-used deque has dropped stays in the cache, with the same       *)
(* solution, and only its counter is decreased.                            *)
(***************************************************************************)
C25_EntriesNeverEjected ==
  [][/\ Len(solvedPuzzles') >= Len(solvedPuzzles)
     /\ SubSeq(SolutionsOf(solvedPuzzles'), 1, Len(solvedPuzzles))
          = SolutionsOf(solvedPuzzles)
     /\ Len(solvedPuzzles') > Len(solvedPuzzles)
          => (/\ SolveStep
              /\ collected' = "success"
              /\ Len(solvedPuzzles') = Len(solvedPuzzles) + 1
              /\ solvedPuzzles'[Len(solvedPuzzles')].first = solvingDigits)]_vars

\* both cached entries have left the deque and are still in the cache
C25_Witness ==
  /\ Len(solvedPuzzles) = 2
  /\ recentlyUsedSolutions = << >>
  /\ lastCall = "Solve"
  /\ popped

(***************************************************************************)
(* C26: every Solve call removes the oldest element of the recently-used   *)
(* deque, if there is one, and decrements the counter of the entry it      *)
(* refers to, except a call that is an exact cache hit made while the      *)
(* deque holds fewer than 10 elements, which removes nothing.              *)
(***************************************************************************)
C26_OldestRemovedUnlessHit ==
  [][SolveStep =>
       LET hit == ExactHitStep
           iter == Find(Collected, digitsArg')
           pushed == IF hit THEN Append(recentlyUsedSolutions, iter)
                     ELSE recentlyUsedSolutions
           removes == pushed # << >>
                        /\ ~ (hit /\ Len(recentlyUsedSolutions) < MAXIMUM_RECENTLY_USED_SOLUTIONS)
           before(i) == IF i <= Len(solvedPuzzles)
                          THEN Count(solvedPuzzles, i) ELSE 0
       IN /\ recentlyUsedSolutions' = IF removes THEN Tail(pushed) ELSE pushed
          /\ popped' = removes
          /\ \A i \in 1..Len(solvedPuzzles') :
               Count(solvedPuzzles', i) =
                 before(i) + (IF hit /\ i = iter THEN 1 ELSE 0)
                   - (IF removes /\ Head(pushed) = i THEN 1 ELSE 0)]_vars

\* a call that was no exact hit has removed the oldest of several elements
C26_Witness ==
  /\ lastCall = "Solve"
  /\ popped
  /\ ~ again
  /\ Find(solvedPuzzles, digitsArg) = 0
  /\ Len(recentlyUsedSolutions) >= 2

(***************************************************************************)
(* C29: between Solve calls each cache entry's recentlyUsedCount is the    *)
(* number of times the entry occurs in the recently-used deque: the        *)
(* unsigned counter never passes below zero, and the collection of a task  *)
(* result never resets the counter of an entry that is in the deque.       *)
(***************************************************************************)
C29_CounterIsOccurrences ==
  \A i \in 1..Len(solvedPuzzles) :
    Count(solvedPuzzles, i) = Occurrences(recentlyUsedSolutions, i)

\* a result was collected and stored while the deque held the other entry
C29_Witness ==
  /\ lastCall = "Solve"
  /\ collected = "success"
  /\ Len(solvedPuzzles) = 2
  /\ Count(solvedPuzzles, 1) >= 2
  /\ Count(solvedPuzzles, 2) = 0

\* the inputs that pass the validation of Solve and have no solution
NoSolutionInputs == {PuzzleNearA, PuzzleNearB}

\* no task is in flight once this call has polled the future
TaskEnded == ~ solvingFuture.valid \/ solvingFuture.ready

(***************************************************************************)
(* C30: a puzzle that passes validation but has no solution is not         *)
(* remembered as unsolvable: every Solve call with its digits that finds   *)
(* no task in flight (none was launched, or the last one has ended, with   *)
(* failure if it was its own) and no near match launches a fresh task for  *)
(* it and returns "not ready", and the cache holds no entry for it.        *)
(***************************************************************************)
C30_FailureNotRemembered ==
  [][(/\ SolveStep
      /\ digitsArg' \in NoSolutionInputs
      /\ TaskEnded
      /\ ~ MostLikelyIsNear(Collected, recentlyUsedSolutions, digitsArg'))
       => (/\ ~ ret'
           /\ launched'
           /\ solvingFuture' = RunningFuture
           /\ solvingDigits' = digitsArg'
           /\ solvingGame' = DigitsToGame(digitsArg')
           /\ Find(solvedPuzzles', digitsArg') = 0)]_vars

\* the task of a puzzle without solution has failed at least twice and is
\* running again
C30_Witness ==
  /\ lastCall = "Solve"
  /\ launched
  /\ collected = "failure"
  /\ digitsArg = PuzzleNearB
  /\ solvingDigits = PuzzleNearB
  /\ InFlight
  /\ calls >= 3

(***************************************************************************)
(* Vocabulary of the training loop.                                        *)
(***************************************************************************)
\* a pass of the loop has just ended
IterationEnded == training.pc = "loop" /\ training.x >= 1

\* Train has returned after the loop
Trained == training.pc = "returned" /\ training.epochs > 0

(***************************************************************************)
(* C27 as claimed: the weights are saved each time another 25 passes have  *)
(* been completed and after every pass whose summed error is below 1, and  *)
(* training goes on after a save until 1500 passes are done.               *)
(***************************************************************************)
C27_Original ==
  /\ IterationEnded =>
       (((training.x % SAVE_INTERVAL) = 0 \/ training.totalErrorLow) => training.saved)
  /\ Trained => training.x = TRAINING_ITERATIONS

(***************************************************************************)
(* C27 amended: during training the weights are persisted after every      *)
(* epoch whose summed |delta| is below 1 and after the epochs with loop    *)
(* index 25, 50, ..., 1475, that is when 26, 51, ..., 1476 epochs have     *)
(* been completed, and at no other time; after each save training          *)
(* continues until the 1,500-epoch budget is used up, so the weights of    *)
(* the last 24 epochs are saved only if their error is below 1.            *)
(***************************************************************************)
C27_SavedOnIntervalOrLowError ==
  /\ IterationEnded =>
       (training.saved =
          (\/ training.totalErrorLow
           \/ (training.x - 1 # 0 /\ ((training.x - 1) % SAVE_INTERVAL) = 0)))
  /\ Trained => training.x = TRAINING_ITERATIONS

\* the 26th pass had a high error and was followed by a save
C27_Witness ==
  /\ training.pc = "loop"
  /\ training.x = SAVE_INTERVAL + 1
  /\ ~ training.totalErrorLow
  /\ training.saved

\* C28: if an earlier run trained the network to completion, Train on the
\* next run loads the saved file and returns without running any pass of
\* the training loop.
C28_CompletedTrainingSkipped ==
  training.completed => (training.epochs = 0 /\ training.pc # "loop")

====
